---- MODULE Spec2Model ----
(***************************************************************************)
(* Model of the migraine tracker's rule-based pattern engine               *)
(* (patterns.js, in its basic and its extended form).                      *)
(*                                                                         *)
(* Time is counted in minutes; minute 0 is 2023-01-01T00:00Z, a Sunday.    *)
(* The host's local time is UTC plus a fixed offset (no daylight saving    *)
(* change inside a run), so a local calendar day is 1440 minutes.          *)
(* An episode's datetime is the ISO string the application stores          *)
(* (Date.prototype.toISOString), modelled as <<year, month, day, hour,     *)
(* minute>> in UTC; a text label is the sequence of its characters.        *)
(***************************************************************************)
EXTENDS Integers, Sequences, FiniteSets, TLC

\* ------------------------------------------------------------------------
\* Date arithmetic (the built-in Date object as the engine uses it)
\* ------------------------------------------------------------------------

MinutesPerDay == 24 * 60

IsLeapYear(y) == (y % 4 = 0 /\ y % 100 # 0) \/ y % 400 = 0

DaysInYear(y) == IF IsLeapYear(y) THEN 366 ELSE 365

DaysInMonth(y, m) ==
  IF m = 2 THEN (IF IsLeapYear(y) THEN 29 ELSE 28)
  ELSE IF m \in {4, 6, 9, 11} THEN 30 ELSE 31

RECURSIVE YearStartDay(_)
\* Day number (0 = 2023-01-01) of January 1st of year y.
YearStartDay(y) ==
  IF y <= 2023 THEN 0 ELSE YearStartDay(y - 1) + DaysInYear(y - 1)

RECURSIVE MonthStartDay(_, _)
MonthStartDay(y, m) ==
  IF m = 1 THEN YearStartDay(y)
  ELSE MonthStartDay(y, m - 1) + DaysInMonth(y, m - 1)

Years == 2023 .. 2025

YearOfDay(n) ==
  CHOOSE y \in Years : YearStartDay(y) <= n /\ n < YearStartDay(y + 1)

MonthOfDay(n) ==
  LET y == YearOfDay(n)
  IN  CHOOSE m \in 1 .. 12 :
        MonthStartDay(y, m) <= n /\ n < MonthStartDay(y, m) + DaysInMonth(y, m)

\* new Date(isoString): the instant an ISO string denotes.
DateParse(s) ==
  (MonthStartDay(s[1], s[2]) + s[3] - 1) * MinutesPerDay + s[4] * 60 + s[5]

\* date.toISOString(): the UTC calendar fields of an instant.
ToISOString(t) ==
  LET n == t \div MinutesPerDay
      y == YearOfDay(n)
      m == MonthOfDay(n)
  IN  << y, m, n - MonthStartDay(y, m) + 1,
         (t % MinutesPerDay) \div 60, t % 60 >>

\* str.slice(0, 10): the "YYYY-MM-DD" prefix of an ISO string.
DatePrefix(s) == SubSeq(s, 1, 3)

\* new Date("YYYY-MM-DD"): a date-only string is UTC midnight of that date.
DateOnlyParse(d) == (MonthStartDay(d[1], d[2]) + d[3] - 1) * MinutesPerDay

\* date.setDate(date.getDate() - days): same local wall-clock time, days earlier.
SetDateMinus(t, days) == t - days * MinutesPerDay

\* Local-time getters; tz is the host's offset from UTC in minutes (local - UTC).
GetHours(t, tz) == ((t + tz) % MinutesPerDay) \div 60

GetMinutes(t, tz) == (t + tz) % 60

\* 0 = Sunday; day 0 of the model is a Sunday.
GetDay(t, tz) == ((t + tz) \div MinutesPerDay) % 7

GetFullYear(t, tz) == YearOfDay((t + tz) \div MinutesPerDay)

\* ------------------------------------------------------------------------
\* Strings (labels are sequences of one-character strings)
\* ------------------------------------------------------------------------

UpperChars == << "A", "B", "C" >>

LowerChars == << "a", "b", "c" >>

ToLowerChar(c) ==
  IF \E i \in 1 .. Len(UpperChars) : UpperChars[i] = c
  THEN LowerChars[CHOOSE i \in 1 .. Len(UpperChars) : UpperChars[i] = c]
  ELSE c

ToUpperChar(c) ==
  IF \E i \in 1 .. Len(LowerChars) : LowerChars[i] = c
  THEN UpperChars[CHOOSE i \in 1 .. Len(LowerChars) : LowerChars[i] = c]
  ELSE c

\* str.toLowerCase()
ToLowerCase(s) == [i \in 1 .. Len(s) |-> ToLowerChar(s[i])]

RECURSIVE TrimStart(_)
TrimStart(s) ==
  IF s # << >> /\ Head(s) = " " THEN TrimStart(Tail(s)) ELSE s

RECURSIVE TrimEnd(_)
TrimEnd(s) ==
  IF s # << >> /\ s[Len(s)] = " " THEN TrimEnd(SubSeq(s, 1, Len(s) - 1)) ELSE s

\* str.trim()
Trim(s) == TrimEnd(TrimStart(s))

\* capitalize(str): first character in upper case, the rest unchanged.
Capitalize(s) ==
  IF s = << >> THEN << >> ELSE << ToUpperChar(s[1]) >> \o Tail(s)

\* ------------------------------------------------------------------------
\* Arithmetic helpers
\* ------------------------------------------------------------------------

\* Math.ceil(n * p / q) for non-negative n.
CeilDiv(a, b) == (a + b - 1) \div b

\* Math.round(c / t * 100)
RoundPercent(c, t) == (200 * c + t) \div (2 * t)

\* (s / n).toFixed(1), in tenths.
ToFixed1(s, n) == (20 * s + n) \div (2 * n)

RECURSIVE SeqSum(_)
SeqSum(s) == IF s = << >> THEN 0 ELSE Head(s) + SeqSum(Tail(s))

RECURSIVE SeqMax(_)
\* Math.max(...s) of a non-empty sequence of naturals.
SeqMax(s) ==
  IF Len(s) = 1 THEN s[1]
  ELSE LET m == SeqMax(Tail(s)) IN IF s[1] >= m THEN s[1] ELSE m

\* array.indexOf(v): first position (0-based) holding v.
\* The last position holding v instead of the first.
IndexOfLast(s, v) == (CHOOSE i \in 1 .. Len(s) : s[i] = v /\ \A j \in (i + 1) .. Len(s) : s[j] # v) - 1

IndexOf(s, v) == (CHOOSE i \in 1 .. Len(s) : s[i] = v /\ \A j \in 1 .. (i - 1) : s[j] # v) - 1

RECURSIVE InsertByKey(_, _)
\* Insert the pair p = <<key, value>> into the key-sorted sequence s, after
\* every pair whose key is not greater (a stable insertion).
InsertByKey(s, p) ==
  IF s = << >> THEN << p >>
  ELSE IF p[1] < s[1][1] THEN << p >> \o s
  ELSE << s[1] >> \o InsertByKey(Tail(s), p)

RECURSIVE SortPairs(_)
SortPairs(ps) ==
  IF ps = << >> THEN << >>
  ELSE InsertByKey(SortPairs(SubSeq(ps, 1, Len(ps) - 1)), ps[Len(ps)])

\* Array.prototype.sort with a numeric comparator (a stable sort): the elements
\* of s in ascending order of keys[i], equal keys keeping their order.
StableSortByKey(s, keys) ==
  LET sorted == SortPairs([i \in 1 .. Len(s) |-> << keys[i], s[i] >>])
  IN  [i \in 1 .. Len(s) |-> sorted[i][2]]

\* ------------------------------------------------------------------------
\* Arrays: a JavaScript array is a reference to its elements.  The caller's
\* array has reference 0; filter, map and slice return a fresh array, sort
\* reorders the array it is called on.
\* ------------------------------------------------------------------------

CallerArray(elems) == [ref |-> 0, elems |-> elems]

\* A slice that hands back the array itself.
ArraySliceAlias(a) == a

\* array.slice(): a shallow copy in a fresh array.
ArraySlice(a) == [ref |-> a.ref + 1, elems |-> a.elems]

\* array.filter(...) and array.map(...): the given elements in a fresh array.
ArrayFresh(a, elems) == [ref |-> a.ref + 1, elems |-> elems]

\* array.sort(cmp), given the keys the comparator orders by: in place.
ArraySort(a, keys) == [ref |-> a.ref, elems |-> StableSortByKey(a.elems, keys)]

\* The elements of the caller's array once array b has been worked on.
CallerElemsAfter(elems, b) == IF b.ref = 0 THEN b.elems ELSE elems

\* ------------------------------------------------------------------------
\* Episodes and findings
\* ------------------------------------------------------------------------

\* An episode is a record; an absent optional property is an absent field.
HasField(ep, f) == f \in DOMAIN ep

\* (ep.triggers || [])
TriggersOf(ep) == IF HasField(ep, "triggers") THEN ep.triggers ELSE << >>

\* (ep.medications || [])
MedicationsOf(ep) == IF HasField(ep, "medications") THEN ep.medications ELSE << >>

\* Number(ep.intensity || 0)
IntensityOrZero(ep) == IF HasField(ep, "intensity") THEN ep.intensity ELSE 0

\* { title, message }: the message is kept as its variable parts, the words
\* (labels) and the numbers the template is filled with.
Finding(title, labels, nums) == [title |-> title, labels |-> labels, nums |-> nums]

WeekdayNames ==
  << << "Sunday" >>, << "Monday" >>, << "Tuesday" >>, << "Wednesday" >>,
     << "Thursday" >>, << "Friday" >>, << "Saturday" >> >>

\* inLastDays(days): episodes dated at or after the cutoff, in array order.
InLastDays(eps, now, days) ==
  SelectSeq(eps, LAMBDA ep : DateParse(ep.datetime) >= SetDateMinus(now, days))

\* ------------------------------------------------------------------------
\* Rule: frequent triggers
\* ------------------------------------------------------------------------

TriggerWindowDays == 30

RECURSIVE FlatTriggers(_)
\* The labels in the order the nested forEach visits them.
FlatTriggers(eps) ==
  IF eps = << >> THEN << >>
  ELSE TriggersOf(Head(eps)) \o FlatTriggers(Tail(eps))

\* counts[key] = (counts[key] || 0) + 1 on an object whose own keys are kept
\* in insertion order: a sequence of <<key, count>>.
AddCount(counts, key) ==
  IF \E i \in 1 .. Len(counts) : counts[i][1] = key
  THEN [i \in 1 .. Len(counts) |->
          IF counts[i][1] = key THEN << key, counts[i][2] + 1 >> ELSE counts[i]]
  ELSE Append(counts, << key, 1 >>)

RECURSIVE CountKeys(_, _)
CountKeys(counts, keys) ==
  IF keys = << >> THEN counts
  ELSE CountKeys(AddCount(counts, Head(keys)), Tail(keys))

\* The threshold rounded down instead of up.
TriggerThresholdFloor(n) == n \div 4

\* Math.ceil(recent.length * 0.25)
TriggerThreshold(n) == CeilDiv(n, 4)

\* The key a label is counted under in the basic engine.
TriggerKeyBasic(t) == ToLowerCase(Trim(t))

\* The key a label is counted under in the extended engine.
TriggerKeyExtended(t) == t

\* Object.entries(counts).filter(count >= threshold).map(name)
CommonTriggers(counts, threshold) ==
  LET common == SelectSeq(counts, LAMBDA c : c[2] >= threshold)
  IN  [i \in 1 .. Len(common) |-> common[i][1]]

TriggerCountsBasic(recent) ==
  LET labels == FlatTriggers(recent)
  IN  CountKeys(<< >>, [i \in 1 .. Len(labels) |-> TriggerKeyBasic(labels[i])])

TriggerCountsExtended(recent) ==
  LET labels == FlatTriggers(recent)
  IN  CountKeys(<< >>, [i \in 1 .. Len(labels) |-> TriggerKeyExtended(labels[i])])

TopTriggersFinding(recent, counts) ==
  LET common == CommonTriggers(counts, TriggerThreshold(Len(recent)))
  IN  IF recent = << >> \/ common = << >> THEN << >>
      ELSE << Finding("Frequent triggers",
                      [i \in 1 .. Len(common) |-> Capitalize(common[i])], << >>) >>

TopTriggersBasic(eps, now) ==
  LET recent == InLastDays(eps, now, TriggerWindowDays)
  IN  TopTriggersFinding(recent, TriggerCountsBasic(recent))

TopTriggersExtended(eps, now) ==
  LET recent == InLastDays(eps, now, TriggerWindowDays)
  IN  TopTriggersFinding(recent, TriggerCountsExtended(recent))

\* ------------------------------------------------------------------------
\* Rule: time-of-day cluster
\* ------------------------------------------------------------------------

ClusterWindowDays == 30

ClusterSpanMinutes == 240

\* Math.ceil(total * 0.4)
ClusterThreshold(total) == CeilDiv(2 * total, 5)

\* recent.map(ep => hours * 60 + minutes), a fresh array, sorted in place with
\* (a, b) => a - b; a is the caller's array.
MinutesArray(a, now, tz) ==
  LET recent  == ArrayFresh(a, InLastDays(a.elems, now, ClusterWindowDays))
      minutes == ArrayFresh(recent,
                   [i \in 1 .. Len(recent.elems) |->
                      GetHours(DateParse(recent.elems[i].datetime), tz) * 60
                      + GetMinutes(DateParse(recent.elems[i].datetime), tz)])
  IN  ArraySort(minutes, minutes.elems)

SortedMinutes(eps, now, tz) == MinutesArray(CallerArray(eps), now, tz).elems

RECURSIVE Shrink(_, _, _)
\* while (minutes[i] - minutes[windowStartIdx] > 240) windowStartIdx++
\* (indices are 1-based here).
Shrink(minutes, i, ws) ==
  IF minutes[i] - minutes[ws] > ClusterSpanMinutes
  THEN Shrink(minutes, i, ws + 1)
  ELSE ws

\* One iteration of the for loop, from the loop state st and the index i.
\* The scan with a later window of equal size replacing the recorded one.
ScanStepLastWins(minutes, st, i) ==
  LET ws    == Shrink(minutes, i, st.windowStartIdx)
      count == i - ws + 1
  IN  [ windowStartIdx  |-> ws,
        count           |-> count,
        maxCount        |-> IF count >= st.maxCount THEN count ELSE st.maxCount,
        windowStartTime |-> IF count >= st.maxCount THEN minutes[ws]
                            ELSE st.windowStartTime ]

ScanStep(minutes, st, i) ==
  LET ws    == Shrink(minutes, i, st.windowStartIdx)
      count == i - ws + 1
  IN  [ windowStartIdx  |-> ws,
        count           |-> count,
        maxCount        |-> IF count > st.maxCount THEN count ELSE st.maxCount,
        windowStartTime |-> IF count > st.maxCount THEN minutes[ws]
                            ELSE st.windowStartTime ]

RECURSIVE ScanFrom(_, _, _)
\* The loop states after iterations i, i+1, ..., in order.
ScanFrom(minutes, st, i) ==
  IF i > Len(minutes) THEN << >>
  ELSE LET next == ScanStep(minutes, st, i)
       IN  << next >> \o ScanFrom(minutes, next, i + 1)

ScanInit == [windowStartIdx |-> 1, count |-> 0, maxCount |-> 0, windowStartTime |-> 0]

ScanSteps(minutes) == ScanFrom(minutes, ScanInit, 1)

\* The loop state when the for loop ends.
ScanResult(minutes) ==
  LET steps == ScanSteps(minutes)
  IN  IF steps = << >> THEN ScanInit ELSE steps[Len(steps)]

\* formatTime(minutes): "HH:MM" as <<HH, MM>>.
FormatTime(minutes) == << minutes \div 60, minutes % 60 >>

TimeOfDayBasic(eps, now, tz) ==
  LET recent  == InLastDays(eps, now, ClusterWindowDays)
      minutes == SortedMinutes(eps, now, tz)
      total   == Len(minutes)
      res     == ScanResult(minutes)
      start   == res.windowStartTime
      end     == (start + ClusterSpanMinutes) % MinutesPerDay
  IN  IF recent = << >> \/ res.maxCount < ClusterThreshold(total) THEN << >>
      ELSE << Finding("Time-of-day pattern", << >>,
                      << RoundPercent(res.maxCount, total) >>
                      \o FormatTime(start) \o FormatTime(end)) >>

TimeOfDayExtended(eps, now, tz) ==
  LET recent  == InLastDays(eps, now, ClusterWindowDays)
      minutes == SortedMinutes(eps, now, tz)
      total   == Len(minutes)
      res     == ScanResult(minutes)
      startHour == res.windowStartTime \div 60
      endHour   == (res.windowStartTime + ClusterSpanMinutes) \div 60
  IN  IF recent = << >> \/ res.maxCount < ClusterThreshold(total) THEN << >>
      ELSE << Finding("Time-of-day cluster", << >>, << startHour, endHour >>) >>

\* ------------------------------------------------------------------------
\* Rule: day-of-week cluster
\* ------------------------------------------------------------------------

\* counts[day]++ over the window, counts = Array(7).fill(0): a sequence whose
\* position d + 1 holds the count of weekday d.
WeekdayCounts(recent, tz) ==
  [d \in 1 .. 7 |->
     Cardinality({i \in 1 .. Len(recent) :
                    GetDay(DateParse(recent[i].datetime), tz) = d - 1})]

DayOfWeekBasic(eps, now, tz) ==
  LET recent   == InLastDays(eps, now, ClusterWindowDays)
      counts   == WeekdayCounts(recent, tz)
      total    == Len(recent)
      maxCount == SeqMax(counts)
      dayIndex == IndexOf(counts, maxCount)
  IN  IF recent = << >> \/ maxCount < ClusterThreshold(total) THEN << >>
      ELSE << Finding("Day-of-week trend", << WeekdayNames[dayIndex + 1] >>,
                      << RoundPercent(maxCount, total) >>) >>

\* Object.keys / Object.entries of an object whose keys are integers: the
\* keys that were set, in ascending numeric order whatever the insertion order.
IntegerKeys(keys) ==
  SelectSeq([k \in 1 .. 54 |-> k - 1],
            LAMBDA k : \E i \in 1 .. Len(keys) : keys[i] = k)

RECURSIVE ReduceMaxEntry(_, _)
\* entries.reduce((max, entry) => entry[1] > max[1] ? entry : max, max)
ReduceMaxEntry(max, entries) ==
  IF entries = << >> THEN max
  ELSE ReduceMaxEntry(IF Head(entries)[2] > max[2] THEN Head(entries) ELSE max,
                      Tail(entries))

DayOfWeekExtended(eps, now, tz) ==
  LET recent   == InLastDays(eps, now, ClusterWindowDays)
      days     == [i \in 1 .. Len(recent) |-> GetDay(DateParse(recent[i].datetime), tz)]
      dayKeys  == IntegerKeys(days)
      entries  == [k \in 1 .. Len(dayKeys) |->
                     << dayKeys[k],
                        Cardinality({i \in 1 .. Len(days) : days[i] = dayKeys[k]}) >>]
      total    == Len(recent)
      maxEntry == ReduceMaxEntry(<< -1, 0 >>, entries)
  IN  IF recent = << >> \/ maxEntry[2] < ClusterThreshold(total) THEN << >>
      ELSE << Finding("Day-of-week cluster", << WeekdayNames[maxEntry[1] + 1] >>,
                      << RoundPercent(maxEntry[2], total) >>) >>

\* ------------------------------------------------------------------------
\* Rule: rising intensity
\* ------------------------------------------------------------------------

RisingWindowDays == 42

RisingSplitDays == 21

\* reduce((sum, ep) => sum + ep.intensity, 0): a number, or NaN as soon as one
\* episode has no intensity.  NaN is the record with isNaN set.
IntensitySumBasic(eps) ==
  [ isNaN |-> \E i \in 1 .. Len(eps) : ~HasField(eps[i], "intensity"),
    sum   |-> SeqSum([i \in 1 .. Len(eps) |-> IntensityOrZero(eps[i])]) ]

\* The averages s1/n1 at which the double product (s1/n1) * 1.2 rounds to a
\* value above the exact one (IEEE-754 binary64, round to nearest); listed for
\* sums of intensities 0..10 over at most 9 episodes.
RoundsAboveTimes12(s1, n1) ==
  \/ 6 * s1 = 7 * n1
  \/ 3 * s1 = 7 * n1
  \/ 3 * s1 = 14 * n1

\* avg2 >= avg1 * 1.2 on doubles, avg1 = s1/n1 and avg2 = s2/n2: the exact
\* comparison, except where the product is exactly avg2 and rounds above it.
GeTimes12(s2, n2, s1, n1) ==
  IF 5 * s2 * n1 = 6 * s1 * n2
  THEN ~RoundsAboveTimes12(s1, n1)
  ELSE 5 * s2 * n1 > 6 * s1 * n2

RisingIntensityBasic(eps, now) ==
  LET cutoff       == SetDateMinus(now, RisingWindowDays)
      recent       == SelectSeq(eps, LAMBDA ep : DateParse(ep.datetime) >= cutoff)
      midCutoff    == SetDateMinus(now, RisingSplitDays)
      firstWindow  == SelectSeq(recent, LAMBDA ep : DateParse(ep.datetime) < midCutoff)
      secondWindow == SelectSeq(recent, LAMBDA ep : DateParse(ep.datetime) >= midCutoff)
      sum1         == IntensitySumBasic(firstWindow)
      sum2         == IntensitySumBasic(secondWindow)
  IN  IF Len(recent) < 2 \/ firstWindow = << >> \/ secondWindow = << >> THEN << >>
      ELSE IF sum1.isNaN \/ sum2.isNaN THEN << >>
      ELSE IF GeTimes12(sum2.sum, Len(secondWindow), sum1.sum, Len(firstWindow))
           THEN << Finding("Rising intensity", << >>,
                           << ToFixed1(sum2.sum, Len(secondWindow)),
                              ToFixed1(sum1.sum, Len(firstWindow)) >>) >>
           ELSE << >>

\* The week number the extended engine groups an episode under:
\* Math.ceil((dayOfYear - dayOffset) / 7), Monday-first.
WeekKey(t, tz) ==
  LET localDay  == (t + tz) \div MinutesPerDay
      dayOffset == (GetDay(t, tz) + 6) % 7
      dayOfYear == localDay - YearStartDay(GetFullYear(t, tz)) + 1
  IN  (dayOfYear - dayOffset + 6) \div 7

\* A sum of fractions sums[i] / counts[i] as <<numerator, denominator>>.
RECURSIVE FractionSum(_, _)
FractionSum(sums, counts) ==
  IF sums = << >> THEN << 0, 1 >>
  ELSE LET rest == FractionSum(Tail(sums), Tail(counts))
       IN  << Head(sums) * rest[2] + rest[1] * Head(counts), Head(counts) * rest[2] >>

RisingIntensityExtended(eps, now, tz) ==
  LET sixWeeks    == InLastDays(eps, now, RisingWindowDays)
      keys        == [i \in 1 .. Len(sixWeeks) |-> WeekKey(DateParse(sixWeeks[i].datetime), tz)]
      \* Object.keys(weekGroups).map(Number).sort((a, b) => a - b)
      weekNumbers == IntegerKeys(keys)
      len         == Len(weekNumbers)
      WeekSum(wn)   == SeqSum([i \in 1 .. Len(sixWeeks) |->
                                 IF keys[i] = wn THEN IntensityOrZero(sixWeeks[i]) ELSE 0])
      WeekCount(wn) == Cardinality({i \in 1 .. Len(sixWeeks) : keys[i] = wn})
      lastWeeks   == SubSeq(weekNumbers, len - 2, len)
      prevWeeks   == SubSeq(weekNumbers, len - 5, len - 3)
      last3       == FractionSum([i \in 1 .. 3 |-> WeekSum(lastWeeks[i])],
                                 [i \in 1 .. 3 |-> WeekCount(lastWeeks[i])])
      prev3       == FractionSum([i \in 1 .. 3 |-> WeekSum(prevWeeks[i])],
                                 [i \in 1 .. 3 |-> WeekCount(prevWeeks[i])])
  IN  IF Len(sixWeeks) < 3 \/ len < 6 THEN << >>
      ELSE IF prev3[1] > 0 /\ 5 * last3[1] * prev3[2] >= 6 * prev3[1] * last3[2]
           THEN << Finding("Rising intensity trend", << >>, << >>) >>
           ELSE << >>

\* ------------------------------------------------------------------------
\* Rule: medication overuse
\* ------------------------------------------------------------------------

MedicationWindowDays == 30

MedicationDaysThreshold == 10

\* The day key taken to be the whole timestamp.
MedicationDayFullStamp(ep) == ep.datetime

\* new Date(ep.datetime).toISOString().slice(0, 10)
MedicationDayBasic(ep) == DatePrefix(ToISOString(DateParse(ep.datetime)))

\* ep.datetime.slice(0, 10)
MedicationDayExtended(ep) == DatePrefix(ep.datetime)

\* The Set of day strings of the window's episodes that carry a medication.
DaysWithMedsBasic(recent) ==
  { MedicationDayBasic(recent[i]) :
      i \in {j \in 1 .. Len(recent) :
               HasField(recent[j], "medications") /\ Len(recent[j].medications) > 0} }

DaysWithMedsExtended(recent) ==
  { MedicationDayExtended(recent[i]) :
      i \in {j \in 1 .. Len(recent) : Len(MedicationsOf(recent[j])) > 0} }

MedicationOveruseBasic(eps, now) ==
  LET days == DaysWithMedsBasic(InLastDays(eps, now, MedicationWindowDays))
  IN  IF Cardinality(days) >= MedicationDaysThreshold
      THEN << Finding("Medication use", << >>, << Cardinality(days) >>) >>
      ELSE << >>

MedicationOveruseExtended(eps, now) ==
  LET days == DaysWithMedsExtended(InLastDays(eps, now, MedicationWindowDays))
  IN  IF Cardinality(days) >= MedicationDaysThreshold
      THEN << Finding("Medication usage", << >>, << Cardinality(days) >>) >>
      ELSE << >>

\* ------------------------------------------------------------------------
\* Extended rules: peak intensity hour, toughest day
\* ------------------------------------------------------------------------

PeakMeanThreshold == 6

PeakCountThreshold == 3

\* Object.entries(buckets).map(...): per key, in ascending key order, the
\* record [key, sum, count]; avg is sum / count.
BucketAverages(recent, keys) ==
  LET entries == IntegerKeys(keys)
  IN  [e \in 1 .. Len(entries) |->
         [ key   |-> entries[e],
           sum   |-> SeqSum([i \in 1 .. Len(recent) |->
                               IF keys[i] = entries[e]
                               THEN IntensityOrZero(recent[i]) ELSE 0]),
           count |-> Cardinality({i \in 1 .. Len(recent) : keys[i] = entries[e]}) ]]

RECURSIVE ReduceMaxAvg(_, _)
\* averages.reduce((max, entry) => entry.avg > max.avg ? entry : max, max)
ReduceMaxAvg(max, averages) ==
  IF averages = << >> THEN max
  ELSE ReduceMaxAvg(
         IF Head(averages).sum * max.count > max.sum * Head(averages).count
         THEN Head(averages) ELSE max,
         Tail(averages))

\* maxEntry.avg >= 6 && maxEntry.count >= 3
\* The gate without its test of the sample count.
PeakGateMeanOnly(entry) ==
  entry.sum >= PeakMeanThreshold * entry.count

PeakGate(entry) ==
  entry.sum >= PeakMeanThreshold * entry.count /\ entry.count >= PeakCountThreshold

AverageIntensityByHour(eps, now, tz) ==
  LET recent   == InLastDays(eps, now, ClusterWindowDays)
      hours    == [i \in 1 .. Len(recent) |-> GetHours(DateParse(recent[i].datetime), tz)]
      averages == BucketAverages(recent, hours)
      maxEntry == ReduceMaxAvg(averages[1], averages)
  IN  IF recent = << >> THEN << >>
      ELSE IF PeakGate(maxEntry)
           THEN << Finding("Peak intensity hour", << >>, << maxEntry.key >>) >>
           ELSE << >>

AverageIntensityByWeekday(eps, now, tz) ==
  LET recent == InLastDays(eps, now, ClusterWindowDays)
      days   == [i \in 1 .. Len(recent) |-> GetDay(DateParse(recent[i].datetime), tz)]
      avgs   == BucketAverages(recent, days)
      top    == ReduceMaxAvg(avgs[1], avgs)
  IN  IF recent = << >> THEN << >>
      ELSE IF PeakGate(top)
           THEN << Finding("Toughest day", << WeekdayNames[top.key + 1] >>, << >>) >>
           ELSE << >>

\* ------------------------------------------------------------------------
\* Extended rule: consistent tracking streak
\* ------------------------------------------------------------------------

StreakThreshold == 3

RECURSIVE Distinct(_)
\* [...new Set(s)]: the distinct elements in order of first occurrence.
Distinct(s) ==
  IF s = << >> THEN << >>
  ELSE LET init == Distinct(SubSeq(s, 1, Len(s) - 1))
       IN  IF \E i \in 1 .. Len(init) : init[i] = s[Len(s)]
           THEN init ELSE Append(init, s[Len(s)])

RECURSIVE StreakFrom(_, _, _)
\* The for loop of computeStreak from index i (1-based) with the streak so far.
StreakFrom(dateStrings, i, streak) ==
  IF i > Len(dateStrings) - 1 THEN streak
  ELSE IF DateOnlyParse(dateStrings[i]) - DateOnlyParse(dateStrings[i + 1]) = MinutesPerDay
       THEN StreakFrom(dateStrings, i + 1, streak + 1)
       ELSE streak

\* computeStreak over the date strings of all episodes, repeated dates kept.
ComputeStreakRepeatedDates(eps) ==
  IF eps = << >> THEN 0
  ELSE LET dates  == [i \in 1 .. Len(eps) |-> DatePrefix(eps[i].datetime)]
           sorted == StableSortByKey(dates,
                       [i \in 1 .. Len(dates) |-> 0 - DateOnlyParse(dates[i])])
       IN  StreakFrom(sorted, 1, 1)

ComputeStreak(eps) ==
  IF eps = << >> THEN 0
  ELSE LET dates  == Distinct([i \in 1 .. Len(eps) |-> DatePrefix(eps[i].datetime)])
           sorted == StableSortByKey(dates,
                       [i \in 1 .. Len(dates) |-> 0 - DateOnlyParse(dates[i])])
       IN  StreakFrom(sorted, 1, 1)

\* episodes.slice().sort((a, b) => new Date(b.datetime) - new Date(a.datetime))
SortedEpisodes(a) ==
  LET copy == ArraySlice(a)
  IN  ArraySort(copy, [i \in 1 .. Len(copy.elems) |-> 0 - DateParse(copy.elems[i].datetime)])

StreakFinding(sortedEps) ==
  LET streak == ComputeStreak(sortedEps)
  IN  IF streak >= StreakThreshold
      THEN << Finding("Consistent tracking", << >>, << streak >>) >>
      ELSE << >>

\* ------------------------------------------------------------------------
\* Extended rule: weekly frequency change
\* ------------------------------------------------------------------------

WeekDays == 7

\* The rule without its test that the previous week holds an episode.
WeeklyChangeUnguarded(eps, now) ==
  LET lastCount == Len(InLastDays(eps, now, WeekDays))
      prevCount == Len(SelectSeq(eps, LAMBDA ep :
                         DateParse(ep.datetime) >= SetDateMinus(now, 2 * WeekDays)
                         /\ DateParse(ep.datetime) < SetDateMinus(now, WeekDays)))
  IN  IF lastCount > prevCount
      THEN << Finding("Increased frequency", << >>, << lastCount, prevCount >>) >>
      ELSE IF lastCount < prevCount
           THEN << Finding("Decreased frequency", << >>, << lastCount, prevCount >>) >>
           ELSE << >>

WeeklyChange(eps, now) ==
  LET lastWeek    == InLastDays(eps, now, WeekDays)
      prevCutoff  == SetDateMinus(now, 2 * WeekDays)
      prevWeekEnd == SetDateMinus(now, WeekDays)
      prevWeek    == SelectSeq(eps, LAMBDA ep :
                       DateParse(ep.datetime) >= prevCutoff
                       /\ DateParse(ep.datetime) < prevWeekEnd)
      lastCount   == Len(lastWeek)
      prevCount   == Len(prevWeek)
  IN  IF prevCount > 0 /\ lastCount > prevCount
      THEN << Finding("Increased frequency", << >>, << lastCount, prevCount >>) >>
      ELSE IF prevCount > 0 /\ lastCount < prevCount
           THEN << Finding("Decreased frequency", << >>, << lastCount, prevCount >>) >>
           ELSE << >>

\* ------------------------------------------------------------------------
\* Inputs
\* ------------------------------------------------------------------------

MaxLen == 3

MaxCalls == 2

MaxTicks == 1

Variants == {"basic", "extended"}

TZOffsets == {0, 120}

\* The reference instant of the runs: Saturday 2024-01-20T12:00Z.
Now0 == DateParse(<< 2024, 1, 20, 12, 0 >>)

Episode(id, datetime, intensity, triggers, medications) ==
  [ id |-> id, datetime |-> datetime, intensity |-> intensity,
    durationMinutes |-> 30, triggers |-> triggers,
    medications |-> medications, notes |-> "" ]

\* The episode logged as the test helper daysAgo(days, hour, minute) dates it,
\* on a host at UTC; a negative days is a date in the future.
DaysAgo(days, hour, minute) ==
  ToISOString((Now0 \div MinutesPerDay - days) * MinutesPerDay + hour * 60 + minute)

Med == [name |-> "painkiller", doseMg |-> 50]

\* A log entry as an imported backup may hold it: the optional properties absent.
SparseEpisode(id, datetime) == [id |-> id, datetime |-> datetime]

EpisodePool ==
  { Episode("p1", << 2024, 1, 20, 9, 0 >>, 7, << << "A", "b" >> >>, << Med >>),
    Episode("p2", << 2024, 1, 19, 9, 30 >>, 8, << << " ", "a", "b" >>, << "c" >> >>, << >>),
    Episode("p3", << 2024, 1, 18, 9, 10 >>, 6, << << "c" >> >>, << Med, Med >>),
    Episode("p4", << 2024, 1, 10, 23, 30 >>, 2, << >>, << >>),
    Episode("p6", << 2024, 1, 25, 14, 0 >>, 9, << << "c" >> >>, << >>),
    SparseEpisode("p7", << 2023, 12, 20, 8, 0 >>) }

RECURSIVE InjectiveSeqs(_, _)
\* The sequences of at most n distinct elements of S.
InjectiveSeqs(S, n) ==
  IF n = 0 THEN { << >> }
  ELSE LET shorter == InjectiveSeqs(S, n - 1)
       IN  shorter \cup
           UNION { { Append(q, x) : x \in S \ {q[i] : i \in 1 .. Len(q)} } :
                   q \in {r \in shorter : Len(r) = n - 1} }

\* What a caller may pass: an array of episodes, or something that is no array.
ArrayArg(elems) == [kind |-> "array", elems |-> elems]

NonArrayArgs == { [kind |-> k, elems |-> << >>] : k \in {"null", "undefined", "object"} }

\* ------------------------------------------------------------------------
\* The engine as a state machine: one call of analysePatterns runs the rules
\* in source order, each rule appending at most one finding.
\* ------------------------------------------------------------------------

VARIABLES
  episodes,     \* the argument the caller holds and passes to analysePatterns
  variant,      \* which patterns.js is loaded: "basic" or "extended"
  tzOffset,     \* the host's local offset from UTC, in minutes
  clock,        \* the host's clock
  ticksLeft,    \* days the clock may still advance
  callsLeft,    \* calls the caller will still make
  pc,           \* position inside analysePatterns, "idle" outside a call
  now,          \* const now = new Date(), read when the call starts
  suggestions,  \* const suggestions = []
  threw,        \* whether the running call has thrown
  returned,     \* the completed calls: [now, result, threw]
  settings,     \* app.js: state.settings
  storedSettings, \* the settings object kept in localStorage
  permission,   \* Notification.permission
  reminders,    \* reminders.js: reminderTimeoutId, with the timers and the
                \* permission requests it has pending in the browser
  shown,        \* reminder notifications displayed so far
  stored,       \* the episodes array kept in localStorage
  appEpisodes,  \* app.js: state.episodes
  listeners,    \* app.js: state.listeners, in subscription order
  delivered,    \* the listener calls made by the last operation
  idSeq,        \* identifiers generated so far
  opsLeft,      \* operations the user will still perform
  lastOp,       \* the operation performed last, with its arguments
  downloads,    \* storage.js: the files handed to download(), oldest first
  exportReturn, \* what the last call of exportEpisodesToCSV returned
  cache,        \* sw.js: the URLs held in the cache CACHE_NAME
  worker,       \* sw.js: the service worker's lifecycle state
  online,       \* whether the network answers
  response,     \* sw.js: how the last fetch event was answered
  scan          \* timeOfDayRule: the locals of its scan, followed step by step

engineVars == << episodes, variant, tzOffset, clock, ticksLeft, callsLeft, pc, now,
                 suggestions, threw, returned >>

appVars == << settings, storedSettings, permission, reminders, shown, stored,
              appEpisodes, listeners, delivered, idSeq, opsLeft, lastOp >>

shellVars == << downloads, exportReturn, cache, worker, online, response, scan >>

vars == << engineVars, appVars, shellVars >>

\* let reminderTimeoutId = null, no timer and no permission request pending,
\* no 'notifications-denied' event dispatched yet.  due[id] is the instant
\* timer id was set to fire at.
NoReminders ==
  [reminderTimeoutId |-> 0, timers |-> {}, prompts |-> << >>, timerSeq |-> 0,
   denied |-> 0, due |-> << >>]

\* No scan of timeOfDayRule is followed.
ScanIdle ==
  [pc |-> "idle", minutes |-> << >>, i |-> 0, windowStartIdx |-> 0, maxCount |-> 0,
   windowStartTime |-> 0, count |-> 0]

\* DEFAULT_SETTINGS, the two fields the reminders read.
DefaultSettings == [reminderEnabled |-> FALSE, reminderTime |-> << 20, 30 >>]

\* The application before it is used.
AppIdle ==
  /\ settings = DefaultSettings
  /\ storedSettings = DefaultSettings
  /\ permission = "default"
  /\ reminders = NoReminders
  /\ shown = 0
  /\ stored = << >>
  /\ appEpisodes = << >>
  /\ listeners = << >>
  /\ delivered = << >>
  /\ idSeq = 0
  /\ opsLeft = 0
  /\ lastOp = [name |-> "none"]

\* Nothing exported, no service worker registered.
ShellIdle ==
  /\ downloads = << >>
  /\ exportReturn = [kind |-> "none"]
  /\ cache = {}
  /\ worker = "parsed"
  /\ online = TRUE
  /\ response = [kind |-> "none"]
  /\ scan = ScanIdle

\* The basic rules with the first two exchanged.
BasicRulesSwapped == << "timeOfDay", "topTriggers", "dayOfWeek", "risingIntensity",
                        "medicationOveruse" >>

BasicRules == << "topTriggers", "timeOfDay", "dayOfWeek", "risingIntensity",
                 "medicationOveruse" >>

ExtendedRules == BasicRules \o << "averageIntensityByHour",
                                  "averageIntensityByWeekday", "streak",
                                  "weeklyChange" >>

RulesOf(v) == IF v = "basic" THEN BasicRules ELSE ExtendedRules

\* The statement that follows rule r in the source of variant v.
NextPc(v, r) ==
  LET rules == RulesOf(v)
      i     == CHOOSE k \in 1 .. Len(rules) : rules[k] = r
  IN  IF i = Len(rules) THEN "return" ELSE rules[i + 1]

\* The guard without its Array.isArray test.
EarlyReturnLengthOnly(arg) == arg.kind = "array" /\ Len(arg.elems) = 0

\* if (!Array.isArray(episodes) || episodes.length === 0) return suggestions;
EarlyReturn(arg) == arg.kind # "array" \/ Len(arg.elems) = 0

\* A suggestions list shared by all calls.
SharedSuggestions(old) == old

\* const suggestions = [] at the start of a call; old is what the previous
\* call left.
FreshSuggestions(old) == << >>

InitEngine(args, variants, offsets, calls, ticks) ==
  /\ episodes \in args
  /\ variant \in variants
  /\ tzOffset \in offsets
  /\ clock = Now0
  /\ ticksLeft = ticks
  /\ callsLeft = calls
  /\ pc = "idle"
  /\ now = Now0
  /\ suggestions = << >>
  /\ threw = FALSE
  /\ returned = << >>
  /\ AppIdle
  /\ ShellIdle

Init ==
  InitEngine({ArrayArg(q) : q \in InjectiveSeqs(EpisodePool, MaxLen)} \cup NonArrayArgs,
             Variants, TZOffsets, MaxCalls, MaxTicks)

\* The host's clock advances by a day between two calls.
Tick ==
  /\ pc = "idle"
  /\ ticksLeft > 0
  /\ clock' = clock + MinutesPerDay
  /\ ticksLeft' = ticksLeft - 1
  /\ UNCHANGED << episodes, variant, tzOffset, callsLeft, pc, now, suggestions,
                  threw, returned >>
  /\ UNCHANGED << appVars, shellVars >>

\* Entry of analysePatterns(episodes): the guard, then now = new Date().
\* Past the guard, episodes.filter on a value that is no array throws.
Call ==
  /\ pc = "idle"
  /\ callsLeft > 0
  /\ callsLeft' = callsLeft - 1
  /\ suggestions' = FreshSuggestions(suggestions)
  /\ now' = clock
  /\ IF EarlyReturn(episodes)
     THEN pc' = "return" /\ threw' = FALSE
     ELSE IF episodes.kind # "array"
          THEN pc' = "return" /\ threw' = TRUE
          ELSE pc' = RulesOf(variant)[1] /\ threw' = FALSE
  /\ UNCHANGED << episodes, variant, tzOffset, clock, ticksLeft, returned >>
  /\ UNCHANGED << appVars, shellVars >>

\* A rule that works on fresh arrays only: it appends its finding.
RuleStep(r, found) ==
  /\ pc = r
  /\ suggestions' = suggestions \o found
  /\ pc' = NextPc(variant, r)
  /\ UNCHANGED << variant, tzOffset, clock, ticksLeft, callsLeft, now, threw,
                  returned >>
  /\ UNCHANGED << appVars, shellVars >>

TopTriggersRule ==
  /\ RuleStep("topTriggers",
              IF variant = "basic" THEN TopTriggersBasic(episodes.elems, now)
              ELSE TopTriggersExtended(episodes.elems, now))
  /\ UNCHANGED episodes

TimeOfDayRule ==
  /\ RuleStep("timeOfDay",
              IF variant = "basic" THEN TimeOfDayBasic(episodes.elems, now, tzOffset)
              ELSE TimeOfDayExtended(episodes.elems, now, tzOffset))
  /\ episodes' = [episodes EXCEPT !.elems =
                    CallerElemsAfter(@, MinutesArray(CallerArray(@), now, tzOffset))]

DayOfWeekRule ==
  /\ RuleStep("dayOfWeek",
              IF variant = "basic" THEN DayOfWeekBasic(episodes.elems, now, tzOffset)
              ELSE DayOfWeekExtended(episodes.elems, now, tzOffset))
  /\ UNCHANGED episodes

RisingIntensityRule ==
  /\ RuleStep("risingIntensity",
              IF variant = "basic" THEN RisingIntensityBasic(episodes.elems, now)
              ELSE RisingIntensityExtended(episodes.elems, now, tzOffset))
  /\ UNCHANGED episodes

MedicationOveruseRule ==
  /\ RuleStep("medicationOveruse",
              IF variant = "basic" THEN MedicationOveruseBasic(episodes.elems, now)
              ELSE MedicationOveruseExtended(episodes.elems, now))
  /\ UNCHANGED episodes

AverageIntensityByHourRule ==
  /\ RuleStep("averageIntensityByHour",
              AverageIntensityByHour(episodes.elems, now, tzOffset))
  /\ UNCHANGED episodes

AverageIntensityByWeekdayRule ==
  /\ RuleStep("averageIntensityByWeekday",
              AverageIntensityByWeekday(episodes.elems, now, tzOffset))
  /\ UNCHANGED episodes

StreakRule ==
  LET sorted == SortedEpisodes(CallerArray(episodes.elems))
  IN  /\ RuleStep("streak", StreakFinding(sorted.elems))
      /\ episodes' = [episodes EXCEPT !.elems = CallerElemsAfter(@, sorted)]

WeeklyChangeRule ==
  /\ RuleStep("weeklyChange", WeeklyChange(episodes.elems, now))
  /\ UNCHANGED episodes

\* return suggestions (or the exception leaves the function).
Return ==
  /\ pc = "return"
  /\ returned' = Append(returned, [now |-> now, result |-> suggestions, threw |-> threw])
  /\ pc' = "idle"
  /\ UNCHANGED << episodes, variant, tzOffset, clock, ticksLeft, callsLeft, now,
                  suggestions, threw >>
  /\ UNCHANGED << appVars, shellVars >>

\* The statements of the basic engine.
NextBasic ==
  \/ Call
  \/ TopTriggersRule
  \/ TimeOfDayRule
  \/ DayOfWeekRule
  \/ RisingIntensityRule
  \/ MedicationOveruseRule
  \/ Return

\* The statements of either engine.
Run ==
  \/ NextBasic
  \/ AverageIntensityByHourRule
  \/ AverageIntensityByWeekdayRule
  \/ StreakRule
  \/ WeeklyChangeRule

Next ==
  \/ Tick
  \/ Run

Spec == Init /\ [][Next]_vars

\* ------------------------------------------------------------------------
\* Logs that exercise one rule each
\* ------------------------------------------------------------------------

MaxTrigEps == 5

TriggerChoices ==
  { << >>, << << "a" >> >>, << << " ", "A" >> >>, << << "b" >>, << "a" >> >> }

\* One episode a day back from yesterday, the i-th with the i-th trigger list;
\* with future set, one more episode dated five days ahead.
TriggerLog(choice, future) ==
  [i \in 1 .. Len(choice) |-> Episode(ToString(i), DaysAgo(i, 10, 0), 5, choice[i], << >>)]
  \o (IF future THEN << Episode("f", DaysAgo(-5, 10, 0), 5, << << "c" >> >>, << >>) >>
      ELSE << >>)

InitTriggers ==
  InitEngine({ ArrayArg(TriggerLog(c, f)) :
                 c \in UNION {[1 .. k -> TriggerChoices] : k \in 1 .. MaxTrigEps},
                 f \in BOOLEAN },
             Variants, {0}, 1, 0)

SpecTriggers == InitTriggers /\ [][Run]_vars

MaxTodEps == 4

\* Minutes of the day (UTC) at which the clustered episodes are logged.
MinuteChoices == {60, 300, 301, 541, 1380}

TimeOfDayLog(minutes) ==
  [i \in 1 .. Len(minutes) |->
     Episode(ToString(i), DaysAgo(i, minutes[i] \div 60, minutes[i] % 60), 4, << >>, << >>)]

InitTimeOfDay ==
  InitEngine({ ArrayArg(TimeOfDayLog(m)) :
                 m \in UNION {[1 .. k -> MinuteChoices] : k \in 1 .. MaxTodEps} },
             Variants, TZOffsets, 1, 0)

SpecTimeOfDay == InitTimeOfDay /\ [][Run]_vars

MaxOlder == 3

MaxNewer == 5

IntensityChoices == {0, 2, 3}

\* The non-decreasing sequences of at most n intensities.
SortedIntensities(n) ==
  { q \in UNION {[1 .. k -> IntensityChoices] : k \in 0 .. n} :
      \A i \in 1 .. Len(q) - 1 : q[i] <= q[i + 1] }

\* The older episodes from 22 days ago backwards, the newer ones from
\* yesterday backwards, one a day.
RisingLog(older, newer) ==
  [i \in 1 .. Len(older) |-> Episode(ToString(20 + i), DaysAgo(21 + i, 12, 0), older[i], << >>, << >>)]
  \o [i \in 1 .. Len(newer) |-> Episode(ToString(i), DaysAgo(i, 12, 0), newer[i], << >>, << >>)]

InitRising ==
  InitEngine({ ArrayArg(RisingLog(o, n)) :
                 o \in SortedIntensities(MaxOlder), n \in SortedIntensities(MaxNewer) },
             {"basic"}, {0}, 1, 0)

SpecRising == InitRising /\ [][NextBasic]_vars

MaxMedDays == 10

\* days medicated episodes on consecutive days back from yesterday, dup more
\* on the first of those days, then optionally an episode without medication,
\* a medicated one 31 days old and a medicated one dated in the future.
MedicationLog(days, dup, plain, old, future) ==
  [i \in 1 .. days |-> Episode(ToString(i), DaysAgo(i, 10, 0), 4, << >>, << Med >>)]
  \o [i \in 1 .. dup |-> Episode(ToString(20 + i), DaysAgo(1, 14 + i, 30), 4, << >>, << Med, Med >>)]
  \o (IF plain THEN << Episode("n", DaysAgo(12, 10, 0), 4, << >>, << >>) >> ELSE << >>)
  \o (IF old THEN << Episode("o", DaysAgo(31, 10, 0), 4, << >>, << Med >>) >> ELSE << >>)
  \o (IF future THEN << Episode("f", DaysAgo(-2, 10, 0), 4, << >>, << Med >>) >> ELSE << >>)

InitMedication ==
  InitEngine({ ArrayArg(MedicationLog(d, k, p, o, f)) :
                 d \in 7 .. MaxMedDays, k \in 0 .. 2, p \in BOOLEAN, o \in BOOLEAN,
                 f \in BOOLEAN },
             Variants, TZOffsets, 1, 0)

SpecMedication == InitMedication /\ [][Run]_vars


\* ------------------------------------------------------------------------
\* Properties
\* ------------------------------------------------------------------------

\* The rule a finding's title belongs to, as its position in the fixed order.
RuleRank(title) ==
  CASE title = "Frequent triggers" -> 1
    [] title \in {"Time-of-day pattern", "Time-of-day cluster"} -> 2
    [] title \in {"Day-of-week trend", "Day-of-week cluster"} -> 3
    [] title \in {"Rising intensity", "Rising intensity trend"} -> 4
    [] title \in {"Medication use", "Medication usage"} -> 5
    [] title = "Peak intensity hour" -> 6
    [] title = "Toughest day" -> 7
    [] title = "Consistent tracking" -> 8
    [] title \in {"Increased frequency", "Decreased frequency"} -> 9
    [] OTHER -> 0

\* The finding lists the engine has produced: those returned and the one
\* being built.
FindingLists == {returned[i].result : i \in DOMAIN returned} \cup {suggestions}

\* C1: when the argument is an empty array or no array at all (null,
\* undefined, another object), every call returns the empty list and none
\* throws, in the basic and in the extended engine.
C1_EmptyOrMissingInput ==
  (episodes.kind # "array" \/ episodes.elems = << >>) =>
     /\ ~threw
     /\ suggestions = << >>
     /\ \A i \in DOMAIN returned : returned[i].result = << >> /\ ~returned[i].threw

C1_Witness ==
  /\ episodes.kind \in {"null", "object"}
  /\ variant = "extended"
  /\ Len(returned) >= 1

\* C2: every finding list follows the fixed rule order: the rules' positions
\* strictly increase along the list (so each rule contributes at most one
\* finding, and "Increased frequency" and "Decreased frequency", which share a
\* position, never both appear), and the basic engine reports only the first
\* five rules.
C2_RuleOrder ==
  \A fs \in FindingLists :
    /\ \A i \in 1 .. Len(fs) :
         /\ RuleRank(fs[i].title) >= 1
         /\ variant = "basic" => RuleRank(fs[i].title) <= 5
    /\ \A i, j \in 1 .. Len(fs) :
         i < j => RuleRank(fs[i].title) < RuleRank(fs[j].title)

C2_Witness ==
  \E i \in DOMAIN returned :
    /\ Len(returned[i].result) >= 4
    /\ \E k \in 1 .. Len(returned[i].result) :
         RuleRank(returned[i].result[k].title) >= 8

C4_InputUnchanged == [][episodes' = episodes]_vars

\* The streak rule has run on an array that is not in descending date order.
C4_Witness ==
  /\ variant = "extended"
  /\ pc = "weeklyChange"
  /\ \E i \in 1 .. Len(episodes.elems) - 1 :
       DateParse(episodes.elems[i].datetime) < DateParse(episodes.elems[i + 1].datetime)

\* ------------------------------------------------------------------------
\* The rules against the episode log (C5 - C10)
\* ------------------------------------------------------------------------

\* The episode list the call was handed.
Log == IF episodes.kind = "array" THEN episodes.elems ELSE << >>

\* Rule r of the running call has just been evaluated.
Past(r) == episodes.kind = "array" /\ Log # << >> /\ pc = NextPc(variant, r)

\* The findings of the rule at position rank in the list being built.
FindingsOf(rank) ==
  { suggestions[i] : i \in {j \in DOMAIN suggestions : RuleRank(suggestions[j].title) = rank} }

\* The episodes of a rule's window of the given number of days: those dated
\* at or after now minus that many days.
WindowOf(days) ==
  { i \in DOMAIN Log : DateParse(Log[i].datetime) >= now - days * MinutesPerDay }

\* The least integer that is at least num / den.
LeastAtLeast(num, den) == CHOOSE k \in 0 .. num : k * den >= num /\ (k - 1) * den < num

\* A label without its case and surrounding whitespace.
Normalised(label) == ToLowerCase(Trim(label))

\* The occurrences, as <<episode, position>>, of labels of the window that
\* normalise to key.
Occurrences(days, key) ==
  { ij \in UNION { {<< i, j >> : j \in DOMAIN TriggersOf(Log[i])} : i \in WindowOf(days) } :
      Normalised(TriggersOf(Log[ij[1]])[ij[2]]) = key }

WindowKeys(days) ==
  UNION { {Normalised(TriggersOf(Log[i])[j]) : j \in DOMAIN TriggersOf(Log[i])} :
            i \in WindowOf(days) }

\* C5: in the basic engine, with W > 0 episodes in the 30-day window, the
\* frequent-triggers finding is emitted exactly when some label occurs at least
\* ceil(W / 4) times among the window's label occurrences (labels compared
\* without case and surrounding whitespace), and it lists every label that
\* reaches the threshold, once, and no label below it.
C5_FrequentTriggers ==
  (variant = "basic" /\ Past("topTriggers") /\ WindowOf(30) # {}) =>
    LET threshold == LeastAtLeast(Cardinality(WindowOf(30)), 4)
        frequent  == {k \in WindowKeys(30) : Cardinality(Occurrences(30, k)) >= threshold}
    IN  /\ (FindingsOf(1) # {}) <=> (frequent # {})
        /\ \A f \in FindingsOf(1) :
             /\ {f.labels[i] : i \in DOMAIN f.labels} = {Capitalize(k) : k \in frequent}
             /\ Len(f.labels) = Cardinality(frequent)

\* Five episodes in the window, a label met twice under two spellings listed,
\* a label met once left out.
C5_Witness ==
  /\ variant = "basic"
  /\ pc = "timeOfDay"
  /\ Cardinality(WindowOf(30)) >= 5
  /\ \E f \in FindingsOf(1) : f.labels = << << "A" >> >>
  /\ Cardinality(Occurrences(30, << "b" >>)) = 1
  /\ \E i, j \in WindowOf(30) :
       TriggersOf(Log[i]) = << << "a" >> >> /\ TriggersOf(Log[j]) = << << " ", "A" >> >>

\* C6: in every variant, labels that differ only in case or surrounding
\* whitespace are one label: their occurrences add up to one count, which is
\* what is compared with the threshold, and the finding names them once.
C6_LabelsNormalised ==
  (Past("topTriggers") /\ WindowOf(30) # {}) =>
    LET threshold == LeastAtLeast(Cardinality(WindowOf(30)), 4)
    IN  /\ \A k \in WindowKeys(30) :
             Cardinality(Occurrences(30, k)) >= threshold =>
               \E f \in FindingsOf(1) : \E i \in DOMAIN f.labels : Normalised(f.labels[i]) = k
        /\ \A f \in FindingsOf(1) : \A i, j \in DOMAIN f.labels :
             Normalised(f.labels[i]) = Normalised(f.labels[j]) => i = j

\* Minutes since local midnight of episode i.
LocalMinute(i) == (DateParse(Log[i].datetime) + tzOffset) % MinutesPerDay

\* For each episode i of the set W, the number of episodes of W whose minute
\* lies in [m(i), m(i) + 240].
SpanCounts(W) ==
  LET m == [i \in W |-> LocalMinute(i)]
  IN  [i \in W |-> Cardinality({ j \in W : m[j] >= m[i] /\ m[j] <= m[i] + 240 })]

\* The largest value of the function counts.
Largest(counts) ==
  CHOOSE c \in {counts[i] : i \in DOMAIN counts} : \A i \in DOMAIN counts : counts[i] <= c

\* The least minute from which a span of the maximal count starts.
SpanFirst(W) ==
  LET counts == SpanCounts(W)
      best   == Largest(counts)
      starts == {LocalMinute(i) : i \in {j \in W : counts[j] = best}}
  IN  CHOOSE m \in starts : \A x \in starts : m <= x

\* C7: the maxCount the two-pointer scan computes is the maximum, over the
\* window's episodes e, of the number of window episodes whose minute of the
\* day lies in [m(e), m(e) + 240]; the time-of-day finding is emitted exactly
\* when that maximum is at least ceil(0.4 * total); and the start it reports is
\* the minute of the first episode of the first span that attains the maximum
\* (the basic engine prints it as hh:mm, the extended one as its hour).
C7_TimeOfDayScan ==
  (Past("timeOfDay") /\ WindowOf(30) # {}) =>
    LET W     == WindowOf(30)
        total == Cardinality(W)
        best  == Largest(SpanCounts(W))
        first == SpanFirst(W)
    IN  /\ ScanResult(SortedMinutes(Log, now, tzOffset)).maxCount = best
        /\ (FindingsOf(2) # {}) <=> (best >= LeastAtLeast(2 * total, 5))
        /\ \A f \in FindingsOf(2) :
             IF variant = "basic" THEN f.nums[2] * 60 + f.nums[3] = first
             ELSE f.nums[1] = first \div 60

\* A finding whose span holds two episodes exactly 240 minutes apart and does
\* not start at the earliest minute of the window.
C7_Witness ==
  /\ pc = "dayOfWeek"
  /\ variant = "basic"
  /\ FindingsOf(2) # {}
  /\ Cardinality(WindowOf(30)) = 3
  /\ Largest(SpanCounts(WindowOf(30))) = 2
  /\ \E i, j \in WindowOf(30) :
       /\ LocalMinute(j) = LocalMinute(i) + 240
       /\ LocalMinute(i) = SpanFirst(WindowOf(30))
  /\ \E i \in WindowOf(30) : LocalMinute(i) < SpanFirst(WindowOf(30))

\* The local weekday of episode i, 0 = Sunday.
LocalWeekday(i) == ((DateParse(Log[i].datetime) + tzOffset) \div MinutesPerDay) % 7

\* For each weekday, the number of episodes of the set W that fall on it.
DayCounts(W) ==
  LET day == [i \in W |-> LocalWeekday(i)]
  IN  [d \in 0 .. 6 |-> Cardinality({ i \in W : day[i] = d })]

\* C8: in both engines, with total > 0 episodes in the 30-day window, the
\* day-of-week finding is emitted exactly when the largest weekday bucket holds
\* at least ceil(0.4 * total) episodes, and it names the weekday with the
\* maximal count, the lowest weekday index (Sunday = 0) among equal counts.
C8_DayOfWeek ==
  (Past("dayOfWeek") /\ WindowOf(30) # {}) =>
    LET W       == WindowOf(30)
        total   == Cardinality(W)
        counts  == DayCounts(W)
        largest == Largest(counts)
        named   == CHOOSE d \in 0 .. 6 :
                     counts[d] = largest /\ \A e \in 0 .. (d - 1) : counts[e] < largest
    IN  /\ (FindingsOf(3) # {}) <=> (largest >= LeastAtLeast(2 * total, 5))
        /\ \A f \in FindingsOf(3) : f.labels = << WeekdayNames[named + 1] >>

\* Two weekdays tie for the largest bucket, the one met first in the log is
\* not the one with the lowest index, and the finding is emitted.
C8_Witness ==
  /\ pc = "risingIntensity"
  /\ FindingsOf(3) # {}
  /\ LET W      == WindowOf(30)
         counts == DayCounts(W)
     IN  \E d, e \in 0 .. 6 :
           /\ d < e
           /\ counts[d] = Largest(counts)
           /\ counts[e] = Largest(counts)
           /\ \E i \in W : LocalWeekday(i) = e /\ \A j \in W : LocalWeekday(j) = d => i < j

RECURSIVE IntensityTotal(_)
\* The sum of the intensities of a set of episodes of the log.
IntensityTotal(set) ==
  IF set = {} THEN 0
  ELSE LET i == CHOOSE x \in set : TRUE
       IN  IntensityOrZero(Log[i]) + IntensityTotal(set \ {i})

\* C9: in the basic engine the 42-day window is split at now - 21 days into an
\* older half (before it) and a newer half (at or after it); with either half
\* empty there is no finding, and otherwise the rising-intensity finding is
\* emitted exactly when the mean intensity of the newer half is at least 1.2
\* times the mean of the older half.
C9_RisingMidpoint ==
  (variant = "basic" /\ Past("risingIntensity")
     /\ \A i \in DOMAIN Log : HasField(Log[i], "intensity")) =>
    LET split == now - 21 * MinutesPerDay
        older == {i \in WindowOf(42) : DateParse(Log[i].datetime) < split}
        newer == {i \in WindowOf(42) : DateParse(Log[i].datetime) >= split}
    IN  (FindingsOf(4) # {}) <=>
          /\ older # {}
          /\ newer # {}
          /\ 5 * IntensityTotal(newer) * Cardinality(older)
               >= 6 * IntensityTotal(older) * Cardinality(newer)

\* The calendar day of episode i: the date of its stored timestamp, as a day
\* number.
StoredDay(i) == DateParse(Log[i].datetime) \div MinutesPerDay

\* The days of the 30-day window on which an episode carries a medication
\* entry.
MedicatedDays ==
  { StoredDay(i) : i \in {j \in WindowOf(30) : Len(MedicationsOf(Log[j])) > 0} }

\* C10: the medication finding is emitted exactly when the window's episodes
\* that carry at least one medication entry fall on at least 10 distinct
\* calendar days (10 days fire, 9 do not), several medicated episodes of one
\* day counting as one day; the finding reports that number of days.
C10_MedicationDays ==
  Past("medicationOveruse") =>
    /\ (FindingsOf(5) # {}) <=> (Cardinality(MedicatedDays) >= 10)
    /\ \A f \in FindingsOf(5) : f.nums = << Cardinality(MedicatedDays) >>

\* Exactly 10 medicated days, one of them with several medicated episodes,
\* next to an unmedicated episode and a medicated one older than the window.
C10_Witness ==
  /\ variant = "basic"
  /\ pc = "return"
  /\ FindingsOf(5) # {}
  /\ Cardinality(MedicatedDays) = 10
  /\ \E i, j \in WindowOf(30) :
       i # j /\ StoredDay(i) = StoredDay(j)
         /\ Len(MedicationsOf(Log[i])) > 0 /\ Len(MedicationsOf(Log[j])) > 0
  /\ \E i \in DOMAIN Log : i \notin WindowOf(30) /\ Len(MedicationsOf(Log[i])) > 0
  /\ \E i \in WindowOf(30) : Len(MedicationsOf(Log[i])) = 0

\* ------------------------------------------------------------------------
\* Weekly change, windows, absent fields (C11 - C13)
\* ------------------------------------------------------------------------

\* The episodes of the seven days before the last seven: dated at or after
\* now - 14 days and before now - 7 days.
PreviousWeek ==
  { i \in DOMAIN Log :
      /\ DateParse(Log[i].datetime) >= now - 14 * MinutesPerDay
      /\ DateParse(Log[i].datetime) < now - 7 * MinutesPerDay }

\* C11: with L the number of episodes of the last 7 days and P the number of
\* the 7 days before them, the weekly-change rule emits nothing when P = 0 or
\* L = P, "Increased frequency" exactly when P > 0 and L > P, "Decreased
\* frequency" exactly when P > 0 and L < P, and the finding carries L and P.
C11_WeeklyChange ==
  (variant = "extended" /\ Past("weeklyChange")) =>
    LET L == Cardinality(WindowOf(7))
        P == Cardinality(PreviousWeek)
        titles == {f.title : f \in FindingsOf(9)}
    IN  /\ ("Increased frequency" \in titles) <=> (P > 0 /\ L > P)
        /\ ("Decreased frequency" \in titles) <=> (P > 0 /\ L < P)
        /\ \A f \in FindingsOf(9) : f.nums = << L, P >>

\* The week before holds an episode and the last week none: "Decreased".
C11_Witness ==
  /\ variant = "extended"
  /\ pc = "return"
  /\ ~threw
  /\ Cardinality(PreviousWeek) = 1
  /\ WindowOf(7) = {}
  /\ \E f \in FindingsOf(9) : f.title = "Decreased frequency" /\ f.nums = << 0, 1 >>

\* The window lengths, in days, the rules ask for.
WindowLengths ==
  {WeekDays, TriggerWindowDays, ClusterWindowDays, RisingWindowDays, MedicationWindowDays}

\* C12: during a call, every N-day window a rule uses holds exactly the
\* episodes dated from now - N days (included) to now (included): none dated
\* after now.
C12_WindowBounds ==
  (pc \notin {"idle"} /\ Log # << >>) =>
    \A days \in WindowLengths :
      LET window == InLastDays(Log, now, days)
      IN  {window[i].id : i \in DOMAIN window}
            = { Log[i].id : i \in { j \in DOMAIN Log :
                  /\ DateParse(Log[j].datetime) >= now - days * MinutesPerDay
                  /\ DateParse(Log[j].datetime) <= now } }

\* analysePatterns(eps) of variant v as a function of the list, of the instant
\* read as now and of the host's offset: the findings of the rules in order.
AnalysePatterns(v, eps, t, tz) ==
  IF v = "basic"
  THEN TopTriggersBasic(eps, t) \o TimeOfDayBasic(eps, t, tz)
       \o DayOfWeekBasic(eps, t, tz) \o RisingIntensityBasic(eps, t)
       \o MedicationOveruseBasic(eps, t)
  ELSE TopTriggersExtended(eps, t) \o TimeOfDayExtended(eps, t, tz)
       \o DayOfWeekExtended(eps, t, tz) \o RisingIntensityExtended(eps, t, tz)
       \o MedicationOveruseExtended(eps, t) \o AverageIntensityByHour(eps, t, tz)
       \o AverageIntensityByWeekday(eps, t, tz)
       \o StreakFinding(SortedEpisodes(CallerArray(eps)).elems)
       \o WeeklyChange(eps, t)

\* The episode with each absent optional field replaced by its zero value.
ZeroFilled(ep) ==
  [ f \in DOMAIN ep \cup {"intensity", "triggers", "medications"} |->
      IF f \in DOMAIN ep THEN ep[f]
      ELSE IF f = "intensity" THEN 0 ELSE << >> ]

\* C13: a call on a list with absent optional fields raises nothing and
\* returns the findings it returns on the list with every absent intensity
\* replaced by 0 and every absent triggers or medications by an empty list.
C13_AbsentFields ==
  (pc = "return" /\ Log # << >>) =>
    /\ ~threw
    /\ suggestions
         = AnalysePatterns(variant, [i \in DOMAIN Log |-> ZeroFilled(Log[i])], now, tzOffset)

\* ------------------------------------------------------------------------
\* The application: reminders.js and app.js
\* ------------------------------------------------------------------------

MaxOps == 3

MaxTimers == 3

\* The value of the time field once the user has cleared it: ''.
NoTime == << >>

\* The settings objects the user can choose.
SettingsSet ==
  { [reminderEnabled |-> e, reminderTime |-> t] :
      e \in BOOLEAN, t \in {<< 20, 30 >>, << 8, 0 >>, NoTime} }

\* if (reminderTimeoutId) { clearTimeout(reminderTimeoutId);
\*                           reminderTimeoutId = null; }
CancelReminders(r) ==
  IF r.reminderTimeoutId = 0 THEN r
  ELSE [r EXCEPT !.timers = @ \ {r.reminderTimeoutId}, !.reminderTimeoutId = 0]

\* The delay scheduleNextReminder computes at the instant t on a host at
\* offset tz, in minutes: to today's HH:mm local time, or to tomorrow's when
\* that is not after t.  With no time chosen the fields parse to NaN, next is
\* an invalid date and setTimeout takes the delay NaN as 0.
\* The delay with the test next < now.
MsUntilStrict(timeStr, t, tz) ==
  IF timeStr = NoTime THEN 0
  ELSE LET local == t + tz
           next  == local - (local % MinutesPerDay) + timeStr[1] * 60 + timeStr[2]
       IN  (IF next < local THEN next + MinutesPerDay ELSE next) - local

MsUntil(timeStr, t, tz) ==
  IF timeStr = NoTime THEN 0
  ELSE LET local == t + tz
           next  == local - (local % MinutesPerDay) + timeStr[1] * 60 + timeStr[2]
       IN  (IF next <= local THEN next + MinutesPerDay ELSE next) - local

\* reminderTimeoutId = setTimeout(...): a new timer, its id kept in the
\* one variable.
SetTimeout(r, at) ==
  [r EXCEPT !.timerSeq = @ + 1, !.timers = @ \cup {r.timerSeq + 1},
            !.reminderTimeoutId = r.timerSeq + 1, !.due = Append(@, at)]

\* scheduleNextReminder(timeStr) called at the instant t.
ScheduleNextReminder(r, timeStr, t, tz) == SetTimeout(r, t + MsUntil(timeStr, t, tz))

\* initReminders(settings) under Notification.permission = perm: with
\* permission undecided the scheduling waits for the answer to
\* Notification.requestPermission(); with permission denied the event
\* 'notifications-denied' is dispatched.
InitReminders(r, s, perm, t, tz) ==
  LET c == CancelReminders(r)
  IN  IF ~s.reminderEnabled THEN c
      ELSE IF perm = "default"
           THEN [c EXCEPT !.prompts = Append(@, s.reminderTime)]
           ELSE IF perm = "denied" THEN [c EXCEPT !.denied = @ + 1]
                ELSE ScheduleNextReminder(c, s.reminderTime, t, tz)

\* notify(): every listener is called, in subscription order, with a copy of
\* the state that holds the episodes eps.
Notify(eps) ==
  [i \in DOMAIN listeners |-> [listener |-> listeners[i], episodes |-> eps]]

\* initApp()
InitApp ==
  /\ opsLeft > 0
  /\ opsLeft' = opsLeft - 1
  /\ appEpisodes' = stored
  /\ settings' = storedSettings
  /\ reminders' = InitReminders(reminders, storedSettings, permission, clock, tzOffset)
  /\ delivered' = Notify(stored)
  /\ lastOp' = [name |-> "initApp"]
  /\ UNCHANGED << storedSettings, permission, shown, stored, listeners, idSeq >>
  /\ UNCHANGED << engineVars, shellVars >>

\* updateSettings(updates), s the settings object the storage layer returns.
UpdateSettings(s) ==
  /\ opsLeft > 0
  /\ opsLeft' = opsLeft - 1
  /\ settings' = s
  /\ storedSettings' = s
  /\ reminders' = IF s.reminderEnabled
                  THEN InitReminders(CancelReminders(reminders), s, permission, clock, tzOffset)
                  ELSE CancelReminders(reminders)
  /\ delivered' = Notify(appEpisodes)
  /\ lastOp' = [name |-> "updateSettings"]
  /\ UNCHANGED << permission, shown, stored, appEpisodes, listeners, idSeq >>
  /\ UNCHANGED << engineVars, shellVars >>

\* The promise of the oldest pending Notification.requestPermission() is
\* resolved with the user's answer and its continuation runs:
\* .then(() => { scheduleNextReminder(settings.reminderTime); })
ResolvePermission(answer) ==
  /\ reminders.prompts # << >>
  /\ permission' = IF permission = "default" THEN answer ELSE permission
  /\ reminders' = ScheduleNextReminder([reminders EXCEPT !.prompts = Tail(@)],
                                       Head(reminders.prompts), clock, tzOffset)
  /\ delivered' = << >>
  /\ lastOp' = [name |-> "permission", time |-> Head(reminders.prompts)]
  /\ UNCHANGED << settings, storedSettings, shown, stored, appEpisodes, listeners,
                  idSeq, opsLeft >>
  /\ UNCHANGED << engineVars, shellVars >>

\* The pending timer that is due first fires when the clock reaches its
\* instant: triggerReminder() shows the notification and arms the timer of
\* the following day, setTimeout(triggerReminder, 24 * 60 * 60 * 1000).
TriggerReminder(id) ==
  /\ id \in reminders.timers
  /\ \A j \in reminders.timers : reminders.due[id] <= reminders.due[j]
  /\ reminders.timerSeq < MaxTimers
  /\ clock' = reminders.due[id]
  /\ shown' = IF permission = "granted" THEN shown + 1 ELSE shown
  /\ reminders' = SetTimeout([reminders EXCEPT !.timers = @ \ {id}],
                             reminders.due[id] + MinutesPerDay)
  /\ delivered' = << >>
  /\ lastOp' = [name |-> "timer", fired |-> id, before |-> reminders.timers]
  /\ UNCHANGED << settings, storedSettings, permission, stored, appEpisodes,
                  listeners, idSeq, opsLeft >>
  /\ UNCHANGED << episodes, variant, tzOffset, ticksLeft, callsLeft, pc, now,
                  suggestions, threw, returned >>
  /\ UNCHANGED shellVars

\* The engine at rest while the application is used.
EngineIdle ==
  /\ episodes = ArrayArg(<< >>)
  /\ variant = "extended"
  /\ tzOffset = 0
  /\ clock = Now0
  /\ ticksLeft = 0
  /\ callsLeft = 0
  /\ pc = "idle"
  /\ now = Now0
  /\ suggestions = << >>
  /\ threw = FALSE
  /\ returned = << >>

\* A page load with the settings of an earlier session in storage.
InitReminderApp ==
  /\ episodes = ArrayArg(<< >>)
  /\ variant = "extended"
  /\ tzOffset \in TZOffsets
  /\ clock = Now0
  /\ ticksLeft = 0
  /\ callsLeft = 0
  /\ pc = "idle"
  /\ now = Now0
  /\ suggestions = << >>
  /\ threw = FALSE
  /\ returned = << >>
  /\ ShellIdle
  /\ settings = DefaultSettings
  /\ storedSettings \in SettingsSet
  /\ permission \in {"default", "granted", "denied"}
  /\ reminders = NoReminders
  /\ shown = 0
  /\ stored = << >>
  /\ appEpisodes = << >>
  /\ listeners = << >>
  /\ delivered = << >>
  /\ idSeq = 0
  /\ opsLeft = MaxOps
  /\ lastOp = [name |-> "none"]

NextReminders ==
  \/ InitApp
  \/ \E s \in SettingsSet : UpdateSettings(s)
  \/ \E answer \in {"granted", "denied", "default"} : ResolvePermission(answer)
  \/ \E id \in reminders.timers : TriggerReminder(id)

SpecReminders == InitReminderApp /\ [][NextReminders]_vars

\* C14: under every interleaving of page loads, settings updates, answers to
\* the permission prompt and timer firings, at most one reminder timer is
\* pending, so that a reminder is shown at most once a day.
C14_OneReminderTimer == Cardinality(reminders.timers) <= 1

\* ------------------------------------------------------------------------
\* The application: storage.js behind app.js
\* ------------------------------------------------------------------------

MaxStoreOps == 2

MaxFile == 2

\* An episode without an id (a falsy id).
NoId == 0

\* crypto.randomUUID(): the n-th identifier generated, equal to no other.
GenId(n) == 100 + n

\* The episodes the user enters or finds in a backup file: an id and the
\* other fields taken together.
StoreEpisodes == { [id |-> i, rev |-> r] : i \in {NoId, 1}, r \in {"x", "y"} }

\* eps.push(ep) after ep.id = ep.id || crypto.randomUUID()
StorageAddEpisode(eps, ep, fresh) ==
  Append(eps, [ep EXCEPT !.id = IF ep.id # NoId THEN ep.id ELSE fresh])

\* updateEpisode(id, patch): eps[i] = { ...eps[i], ...patch, id } at the
\* first i with eps[i].id === id, the array as it was if there is none.
\* The merge in which an id of the patch wins: { ...eps[i], id, ...patch }.
StorageUpdateEpisodePatchId(eps, id, patch) ==
  IF \E i \in DOMAIN eps : eps[i].id = id
  THEN LET i == CHOOSE k \in DOMAIN eps :
                  eps[k].id = id /\ \A j \in 1 .. (k - 1) : eps[j].id # id
       IN  [eps EXCEPT ![i] =
              [f \in DOMAIN eps[i] \cup DOMAIN patch |->
                 IF f \in DOMAIN patch THEN patch[f] ELSE eps[i][f]]]
  ELSE eps

StorageUpdateEpisode(eps, id, patch) ==
  IF \E i \in DOMAIN eps : eps[i].id = id
  THEN LET i == CHOOSE k \in DOMAIN eps :
                  eps[k].id = id /\ \A j \in 1 .. (k - 1) : eps[j].id # id
       IN  [eps EXCEPT ![i] =
              [f \in DOMAIN eps[i] \cup DOMAIN patch |->
                 IF f = "id" THEN id
                 ELSE IF f \in DOMAIN patch THEN patch[f] ELSE eps[i][f]]]
  ELSE eps

\* updateEpisode(id, patch): the calls of saveEpisodes, each of which writes
\* the array and calls onChange(): one inside if (i !== -1), none past it.
UpdateEpisodeSaves(eps, id) ==
  IF \E i \in DOMAIN eps : eps[i].id = id THEN 1 ELSE 0

\* The null that updateEpisode returns.
Null == << >>

\* updateEpisode(id, patch): what it returns, eps[i] after the assignment
\* or null.
UpdateEpisodeReturn(eps, id, patch) ==
  IF \E i \in DOMAIN eps : eps[i].id = id
  THEN LET i == CHOOSE k \in DOMAIN eps :
                  eps[k].id = id /\ \A j \in 1 .. (k - 1) : eps[j].id # id
       IN  StorageUpdateEpisode(eps, id, patch)[i]
  ELSE Null

\* loadEpisodes().filter(e => e.id !== id)
StorageDeleteEpisode(eps, id) == SelectSeq(eps, LAMBDA e : e.id # id)

\* map.set(key, e) on a Map kept as the sequence of its <<key, value>>
\* entries in insertion order.
MapSet(map, key, e) ==
  IF \E i \in DOMAIN map : map[i][1] = key
  THEN [i \in DOMAIN map |-> IF map[i][1] = key THEN << key, e >> ELSE map[i]]
  ELSE Append(map, << key, e >>)

RECURSIVE MapSetAll(_, _, _, _)
\* map.set(key, e) for the episodes es from position j on, keyed by their
\* id; with random set, an episode without id gets a random key instead (here
\* the negated position, equal to no id and to no other key).
MapSetAll(map, es, j, random) ==
  IF j > Len(es) THEN map
  ELSE MapSetAll(MapSet(map, IF random /\ es[j].id = NoId THEN 0 - j ELSE es[j].id, es[j]),
                 es, j + 1, random)

\* The array importBackupJSON saves: incoming in 'replace' mode, else the
\* values of new Map(current.map(e => [e.id, e])) after the incoming episodes
\* were set.
ImportBackupJSON(current, incoming, mode) ==
  IF mode = "replace" THEN incoming
  ELSE LET merged == MapSetAll(MapSetAll(<< >>, current, 1, FALSE), incoming, 1, TRUE)
       IN  [i \in DOMAIN merged |-> merged[i][2]]

\* subscribe(fn): the listener is added and called once with the state.
Subscribe ==
  /\ opsLeft > 0
  /\ opsLeft' = opsLeft - 1
  /\ listeners' = Append(listeners, Len(listeners) + 1)
  /\ delivered' = << [listener |-> Len(listeners) + 1, episodes |-> appEpisodes] >>
  /\ lastOp' = [name |-> "subscribe"]
  /\ UNCHANGED << settings, storedSettings, permission, reminders, shown, stored,
                  appEpisodes, idSeq >>
  /\ UNCHANGED << engineVars, shellVars >>

\* An operation of app.js on the episodes: the storage call that leaves
\* saved in localStorage, then state.episodes = loadEpisodes() and notify().
EpisodeOp(op, saved) ==
  /\ opsLeft > 0
  /\ opsLeft' = opsLeft - 1
  /\ stored' = saved
  /\ appEpisodes' = saved
  /\ delivered' = Notify(saved)
  /\ lastOp' = op
  /\ UNCHANGED << settings, storedSettings, permission, reminders, shown, listeners >>
  /\ UNCHANGED << engineVars, shellVars >>

\* addEpisode(episodeData)
AddEpisode(ep) ==
  /\ EpisodeOp([name |-> "addEpisode"], StorageAddEpisode(stored, ep, GenId(idSeq + 1)))
  /\ idSeq' = IF ep.id = NoId THEN idSeq + 1 ELSE idSeq

\* updateEpisode(id, updates)
UpdateEpisode(id, patch) ==
  /\ EpisodeOp([name |-> "updateEpisode", id |-> id, patch |-> patch, before |-> stored,
                returned |-> UpdateEpisodeReturn(stored, id, patch),
                saves |-> UpdateEpisodeSaves(stored, id)],
               StorageUpdateEpisode(stored, id, patch))
  /\ UNCHANGED idSeq

\* deleteEpisode(id)
DeleteEpisode(id) ==
  /\ EpisodeOp([name |-> "deleteEpisode"], StorageDeleteEpisode(stored, id))
  /\ UNCHANGED idSeq

\* importBackupJSON(file, { mode }) of storage.js, past its await: the
\* episodes are saved; app.js is not involved. The file carries no settings.
ImportBackup(incoming, mode) ==
  /\ opsLeft > 0
  /\ opsLeft' = opsLeft - 1
  /\ stored' = ImportBackupJSON(stored, incoming, mode)
  /\ delivered' = << >>
  /\ lastOp' = [name |-> "import", before |-> stored, incoming |-> incoming, mode |-> mode]
  /\ UNCHANGED << settings, storedSettings, permission, reminders, shown, appEpisodes,
                  listeners, idSeq >>
  /\ UNCHANGED << engineVars, shellVars >>

\* The ids stored or generated so far, and one more.
KnownIds == {1, 2} \cup {GenId(n) : n \in 1 .. idSeq}

\* The backup files: up to MaxFile episodes.
BackupFiles == UNION { [1 .. n -> StoreEpisodes] : n \in 0 .. MaxFile }

\* A page of the application over an empty store.
InitStore ==
  /\ EngineIdle
  /\ ShellIdle
  /\ settings = DefaultSettings
  /\ storedSettings = DefaultSettings
  /\ permission = "granted"
  /\ reminders = NoReminders
  /\ shown = 0
  /\ stored = << >>
  /\ appEpisodes = << >>
  /\ listeners = << >>
  /\ delivered = << >>
  /\ idSeq = 0
  /\ opsLeft = MaxStoreOps
  /\ lastOp = [name |-> "none"]

NextStore ==
  \/ Subscribe
  \/ InitApp
  \/ \E ep \in StoreEpisodes : AddEpisode(ep)
  \/ \E id \in KnownIds : \E patch \in {[rev |-> "y"], [id |-> 2, rev |-> "x"]} :
       UpdateEpisode(id, patch)
  \/ \E id \in KnownIds : DeleteEpisode(id)
  \/ UpdateSettings([DefaultSettings EXCEPT !.reminderTime = << 8, 0 >>])
  \/ \E incoming \in BackupFiles : \E mode \in {"merge", "replace"} :
       ImportBackup(incoming, mode)

SpecStore == InitStore /\ [][NextStore]_vars

\* No id is carried by two episodes of es.
IdsDistinct(es) ==
  \A i, j \in DOMAIN es : (i # j /\ es[i].id # NoId) => es[i].id # es[j].id

\* The episodes of es, as a set.
Elements(es) == {es[i] : i \in DOMAIN es}

\* C15: after importBackupJSON in 'replace' mode the stored episodes are the
\* imported ones; in 'merge' mode every stored episode whose id does not occur
\* in the import is kept unchanged, every imported episode is present, an
\* imported episode replaces the stored one of the same id, and no id occurs
\* twice among the episodes that carry one. (Stated for a store and a file
\* in which no id occurs twice.)
C15_ImportBackup ==
  (lastOp.name = "import" /\ IdsDistinct(lastOp.before) /\ IdsDistinct(lastOp.incoming)) =>
    LET before   == lastOp.before
        incoming == lastOp.incoming
        imported == {incoming[j].id : j \in DOMAIN incoming} \ {NoId}
    IN  IF lastOp.mode = "replace" THEN stored = incoming
        ELSE /\ \A i \in DOMAIN before :
                  before[i].id \notin imported => before[i] \in Elements(stored)
             /\ \A j \in DOMAIN incoming : incoming[j] \in Elements(stored)
             /\ \A i \in DOMAIN stored :
                  stored[i].id \in imported => stored[i] \in Elements(incoming)
             /\ IdsDistinct(stored)

\* C16: after any sequence of addEpisode, updateEpisode, deleteEpisode and
\* importBackupJSON from an empty store, no two stored episodes have the same
\* id.
C16_UniqueIds == IdsDistinct(stored)

\* C17: a listener is called once when it subscribes, and after each of
\* initApp, addEpisode, updateEpisode, deleteEpisode and updateSettings every
\* listener is called once, in subscription order; at each call the episodes
\* received are those held in storage.
C17_ListenersNotified ==
  /\ lastOp.name = "subscribe" =>
       delivered = << [listener |-> listeners[Len(listeners)], episodes |-> stored] >>
  /\ lastOp.name \in {"initApp", "addEpisode", "updateEpisode", "deleteEpisode",
                      "updateSettings"} =>
       delivered = [i \in DOMAIN listeners |-> [listener |-> listeners[i], episodes |-> stored]]

\* ------------------------------------------------------------------------
\* storage.js: the CSV export.  A text is the sequence of its characters.
\* ------------------------------------------------------------------------

MaxRows == 2

MaxExports == 3

DigitChars == << "0", "1", "2", "3", "4", "5", "6", "7", "8", "9" >>

RECURSIVE Decimal(_)
\* String(n) of a natural number.
Decimal(n) ==
  IF n < 10 THEN << DigitChars[n + 1] >>
  ELSE Decimal(n \div 10) \o << DigitChars[(n % 10) + 1] >>

Pad2(n) == << DigitChars[(n \div 10) + 1], DigitChars[(n % 10) + 1] >>

\* The stored datetime string, as date.toISOString() wrote it.
IsoText(dt) ==
  Decimal(dt[1]) \o << "-" >> \o Pad2(dt[2]) \o << "-" >> \o Pad2(dt[3]) \o << "T" >>
    \o Pad2(dt[4]) \o << ":" >> \o Pad2(dt[5])
    \o << ":", "0", "0", ".", "0", "0", "0", "Z" >>

RECURSIVE Join(_, _)
\* parts.join(sep)
Join(parts, sep) ==
  IF parts = << >> THEN << >>
  ELSE IF Len(parts) = 1 THEN parts[1]
  ELSE parts[1] \o sep \o Join(Tail(parts), sep)

RECURSIVE ReplaceNewlines(_)
\* s.replace(/\r?\n/g, ' ')
ReplaceNewlines(s) ==
  IF s = << >> THEN << >>
  ELSE IF s[1] = "\n" THEN << " " >> \o ReplaceNewlines(Tail(s))
  ELSE IF s[1] = "\r" /\ Len(s) > 1 /\ s[2] = "\n"
    THEN << " " >> \o ReplaceNewlines(Tail(Tail(s)))
  ELSE << s[1] >> \o ReplaceNewlines(Tail(s))

RECURSIVE DoubleQuotes(_)
\* s.replace(/"/g, '""')
DoubleQuotes(s) ==
  IF s = << >> THEN << >>
  ELSE (IF s[1] = "\"" THEN << "\"", "\"" >> ELSE << s[1] >>) \o DoubleQuotes(Tail(s))

\* The cell as written: quoted when it holds a quote, a comma or a newline.
CsvCell(s) ==
  IF \E i \in 1 .. Len(s) : s[i] \in {"\"", ",", "\n"}
    THEN << "\"" >> \o DoubleQuotes(s) \o << "\"" >>
    ELSE s

CsvHeader == << << "i", "d" >>,
               << "d", "a", "t", "e", "t", "i", "m", "e" >>,
               << "i", "n", "t", "e", "n", "s", "i", "t", "y" >>,
               << "d", "u", "r", "a", "t", "i", "o", "n", "M", "i", "n", "u", "t", "e", "s" >>,
               << "t", "r", "i", "g", "g", "e", "r", "s" >>,
               << "m", "e", "d", "i", "c", "a", "t", "i", "o", "n", "s" >>,
               << "n", "o", "t", "e", "s" >> >>

\* The medication written with the separator ':' and no unit.
MedicationCellColon(m) ==
  IF HasField(m, "doseMg") /\ m.doseMg # 0
    THEN m.name \o << ":" >> \o Decimal(m.doseMg)
    ELSE m.name

\* m.doseMg ? `${m.name}(${m.doseMg}mg)` : m.name
MedicationCell(m) ==
  IF HasField(m, "doseMg") /\ m.doseMg # 0
    THEN m.name \o << "(" >> \o Decimal(m.doseMg) \o << "m", "g", ")" >>
    ELSE m.name

\* String(cell ?? '') of a field that holds a text.
TextField(e, f) == IF HasField(e, f) THEN e[f] ELSE << >>

\* String(cell ?? '') of a field that holds a number.
NumberField(e, f) == IF HasField(e, f) THEN Decimal(e[f]) ELSE << >>

\* The row of one episode, before quoting.
CsvRow(e) ==
  << TextField(e, "id"),
     IsoText(e.datetime),
     NumberField(e, "intensity"),
     NumberField(e, "durationMinutes"),
     Join(TriggersOf(e), << ";" >>),
     Join([i \in DOMAIN MedicationsOf(e) |-> MedicationCell(MedicationsOf(e)[i])],
          << ";" >>),
     ReplaceNewlines(TextField(e, "notes")) >>

\* loadEpisodes().sort((a,b) => new Date(b.datetime) - new Date(a.datetime))
ExportOrder(eps) ==
  StableSortByKey(eps, [i \in DOMAIN eps |-> 0 - DateParse(eps[i].datetime)])

\* The text exportEpisodesToCSV puts in the Blob.
CsvText(eps) ==
  LET rows == << CsvHeader >> \o [i \in DOMAIN eps |-> CsvRow(ExportOrder(eps)[i])]
  IN  Join([r \in DOMAIN rows |->
              Join([c \in DOMAIN rows[r] |-> CsvCell(rows[r][c])], << "," >>)],
           << "\n" >>)

ExportEpisode(id, datetime, triggers, medications, notes) ==
  [ id |-> id, datetime |-> datetime, intensity |-> 5, durationMinutes |-> 60,
    triggers |-> triggers, medications |-> medications, notes |-> notes ]

\* Episodes a user has stored: with and without triggers and doses, a note
\* that spans two lines, a trigger that holds a comma, one that holds a line
\* break (from an imported backup) and an episode without the optional fields.
ExportPool ==
  { ExportEpisode(<< "1" >>, << 2023, 1, 1, 10, 0 >>, << << "s" >>, << "c" >> >>,
                  << [name |-> << "A" >>, doseMg |-> 50] >>, << "f" >>),
    ExportEpisode(<< "2" >>, << 2023, 1, 2, 12, 30 >>, << >>, << >>,
                  << "a", "\n", "b" >>),
    ExportEpisode(<< "3" >>, << 2023, 1, 2, 12, 30 >>, << << "s", ",", "t" >> >>,
                  << [name |-> << "B" >>] >>, << "\"" >>),
    ExportEpisode(<< "4" >>, << 2023, 1, 3, 8, 0 >>, << << "s", "\n", "t" >> >>,
                  << >>, << >>),
    [ id |-> << "5" >>, datetime |-> << 2022, 12, 31, 23, 59 >> ] }

RECURSIVE SeqsUpTo(_, _)
\* The sequences over S of length at most n.
SeqsUpTo(S, n) ==
  IF n = 0 THEN {<< >>}
  ELSE LET shorter == SeqsUpTo(S, n - 1)
       IN  shorter \cup {Append(q, x) : q \in shorter, x \in S}

\* exportEpisodesToCSV(): the text goes to download(); the function has no
\* return statement.
ExportEpisodesToCSV ==
  /\ opsLeft > 0
  /\ opsLeft' = opsLeft - 1
  /\ downloads' = Append(downloads, CsvText(stored))
  /\ exportReturn' = [kind |-> "undefined"]
  /\ lastOp' = [name |-> "exportCSV"]
  /\ delivered' = << >>
  /\ UNCHANGED << settings, storedSettings, permission, reminders, shown, stored,
                  appEpisodes, listeners, idSeq >>
  /\ UNCHANGED << cache, worker, online, response, scan >>
  /\ UNCHANGED engineVars

\* A store a user has filled, before the export is asked for.
InitExport ==
  /\ EngineIdle
  /\ settings = DefaultSettings
  /\ storedSettings = DefaultSettings
  /\ permission = "default"
  /\ reminders = NoReminders
  /\ shown = 0
  /\ stored \in SeqsUpTo(ExportPool, MaxRows)
  /\ appEpisodes = stored
  /\ listeners = << >>
  /\ delivered = << >>
  /\ idSeq = 0
  /\ opsLeft = MaxExports
  /\ lastOp = [name |-> "none"]
  /\ ShellIdle

NextExport == ExportEpisodesToCSV

SpecExport == InitExport /\ [][NextExport]_vars

RECURSIVE Lines(_)
\* text.split('\n')
Lines(text) ==
  IF \A i \in DOMAIN text : text[i] # "\n" THEN << text >>
  ELSE LET k == CHOOSE i \in DOMAIN text :
                  text[i] = "\n" /\ \A j \in 1 .. (i - 1) : text[j] # "\n"
       IN  << SubSeq(text, 1, k - 1) >> \o Lines(SubSeq(text, k + 1, Len(text)))

\* line.includes(part)
Includes(line, part) ==
  \E i \in 1 .. (Len(line) - Len(part) + 1) : SubSeq(line, i, i + Len(part) - 1) = part

\* The claimed shape of a CSV text for the episodes eps.
ClaimedCsv(text, eps) ==
  LET lines == Lines(text) IN
  /\ lines[1] = Join(CsvHeader, << "," >>)
  /\ Len(lines) = 1 + Len(eps)
  /\ \A e \in Elements(eps) :
       \E k \in 2 .. Len(lines) :
         /\ Includes(lines[k], Join(TriggersOf(e), << "|" >>))
         /\ \A i \in DOMAIN MedicationsOf(e) :
              Includes(lines[k], MedicationCellColon(MedicationsOf(e)[i]))

\* C18: exportEpisodesToCSV returns the CSV text: the header line, then one
\* line per stored episode, the triggers of an episode joined with '|' and a
\* medication with a dose written as name:dose.
C18_ExportCSV ==
  lastOp.name = "exportCSV" =>
    /\ exportReturn.kind = "text"
    /\ ClaimedCsv(exportReturn.text, stored)

\* ------------------------------------------------------------------------
\* sw.js: the service worker.  The browser runs install, then activate, and
\* dispatches fetch events to the activated worker only.
\* ------------------------------------------------------------------------

MaxFetches == 3

PRECACHE_URLS ==
  << "./index.html", "./manifest.json", "./assets/style.css",
     "./assets/icons/icon-192.png", "./assets/icons/icon-512.png",
     "./src/main.js", "./src/app.js", "./src/ui.js", "./src/storage.js",
     "./src/patterns.js", "./src/charts.js", "./src/reminders.js" >>

\* The URLs the page asks for: the start URL, two files of the shell and
\* one resource outside the precache list.
RequestUrls == {"./", "./index.html", "./src/main.js", "./assets/photo.png"}

Requests ==
  [method : {"GET", "POST"}, mode : {"navigate", "cors"}, url : RequestUrls]

\* caches.match(url): the cached response for the URL, else undefined.
CachesMatch(held, url) ==
  IF url \in held THEN [kind |-> "cache", url |-> url] ELSE [kind |-> "error"]

\* fetch(request): the network's answer, a rejection when it is unreachable.
NetworkFetch(req, up) ==
  IF up THEN [kind |-> "network", url |-> req.url] ELSE [kind |-> "rejected"]

\* The fetch handler: what the page receives for the request.  "default" is
\* the browser's own handling, respondWith not being called; "error" is
\* respondWith resolving to undefined.
\* The fetch handler asking the network before the cache.
FetchHandlerNetworkFirst(req, held, up) ==
  IF req.method # "GET" THEN [kind |-> "default"]
  ELSE LET fetched == NetworkFetch(req, up) IN
       IF fetched.kind # "rejected" THEN fetched
       ELSE IF req.url \in held THEN CachesMatch(held, req.url)
       ELSE IF req.mode = "navigate" THEN CachesMatch(held, "./index.html")
       ELSE [kind |-> "error"]

FetchHandler(req, held, up) ==
  IF req.method # "GET" THEN [kind |-> "default"]
  ELSE IF req.url \in held THEN CachesMatch(held, req.url)
  ELSE LET fetched == NetworkFetch(req, up) IN
       IF fetched.kind # "rejected" THEN fetched
       ELSE IF req.mode = "navigate" THEN CachesMatch(held, "./index.html")
       ELSE [kind |-> "error"]

ShellUnchanged ==
  UNCHANGED << settings, storedSettings, permission, reminders, shown, stored,
               appEpisodes, listeners, delivered, idSeq, downloads, exportReturn, scan >>

\* The install event: cache.addAll(PRECACHE_URLS) adds every URL or, when one
\* request fails, none, and the installation is then abandoned.
Install ==
  /\ worker = "parsed"
  /\ \E served \in BOOLEAN :
       IF online /\ served
         THEN /\ cache' = cache \cup Elements(PRECACHE_URLS)
              /\ worker' = "installed"
         ELSE /\ cache' = cache
              /\ worker' = "redundant"
  /\ lastOp' = [name |-> "install"]
  /\ UNCHANGED << online, response, opsLeft >>
  /\ ShellUnchanged
  /\ UNCHANGED engineVars

\* The activate event: every cache but CACHE_NAME is deleted.
Activate ==
  /\ worker = "installed"
  /\ worker' = "activated"
  /\ lastOp' = [name |-> "activate"]
  /\ UNCHANGED << cache, online, response, opsLeft >>
  /\ ShellUnchanged
  /\ UNCHANGED engineVars

\* The network comes or goes.
SetOnline(up) ==
  /\ online # up
  /\ online' = up
  /\ lastOp' = [name |-> "network"]
  /\ UNCHANGED << cache, worker, response, opsLeft >>
  /\ ShellUnchanged
  /\ UNCHANGED engineVars

\* A fetch event of a controlled page.
FetchEvent(req) ==
  /\ worker = "activated"
  /\ opsLeft > 0
  /\ opsLeft' = opsLeft - 1
  /\ response' = [request |-> req, online |-> online] @@ FetchHandler(req, cache, online)
  /\ lastOp' = [name |-> "fetch"]
  /\ UNCHANGED << cache, worker, online >>
  /\ ShellUnchanged
  /\ UNCHANGED engineVars

\* The page registers the worker on its first load.
InitWorker ==
  /\ EngineIdle
  /\ settings = DefaultSettings
  /\ storedSettings = DefaultSettings
  /\ permission = "default"
  /\ reminders = NoReminders
  /\ shown = 0
  /\ stored = << >>
  /\ appEpisodes = << >>
  /\ listeners = << >>
  /\ delivered = << >>
  /\ idSeq = 0
  /\ opsLeft = MaxFetches
  /\ lastOp = [name |-> "none"]
  /\ downloads = << >>
  /\ exportReturn = [kind |-> "none"]
  /\ cache = {}
  /\ worker = "parsed"
  /\ scan = ScanIdle
  /\ online \in BOOLEAN
  /\ response = [kind |-> "none"]

NextWorker ==
  \/ Install
  \/ Activate
  \/ \E up \in BOOLEAN : SetOnline(up)
  \/ \E req \in Requests : FetchEvent(req)

SpecWorker == InitWorker /\ [][NextWorker]_vars

\* C19: once install has cached the precache list, a GET request for a cached
\* URL is answered from the cache without the network, a GET navigation that
\* is not cached and whose network fetch fails is answered with the cached
\* index.html, and a request of another method is not intercepted.
C19_OfflineUse ==
  response.kind # "none" =>
    LET req == response.request IN
    /\ Elements(PRECACHE_URLS) \subseteq cache
    /\ req.method # "GET" => response.kind = "default"
    /\ (req.method = "GET" /\ req.url \in cache) =>
         response.kind = "cache" /\ response.url = req.url
    /\ (req.method = "GET" /\ req.url \notin cache /\ req.mode = "navigate"
          /\ ~response.online) =>
         response.kind = "cache" /\ response.url = "./index.html"

\* An offline navigation to the start URL has been answered.
C19_Witness ==
  /\ response.kind = "cache"
  /\ response.request = [method |-> "GET", mode |-> "navigate", url |-> "./"]
  /\ ~response.online
  /\ response.url = "./index.html"

\* ------------------------------------------------------------------------
\* The end of the time-of-day range (C20)
\* ------------------------------------------------------------------------

\* C20: in both engines the range of the time-of-day finding ends at
\* (start + 240) mod 1440, a valid clock time: its hour is in 0..23 and its
\* minutes are in 0..59.
C20_TimeOfDayEnd ==
  (Past("timeOfDay") /\ WindowOf(30) # {}) =>
    LET end == (SpanFirst(WindowOf(30)) + ClusterSpanMinutes) % MinutesPerDay IN
    \A f \in FindingsOf(2) :
      IF variant = "basic"
        THEN /\ f.nums[4] \in 0 .. 23
             /\ f.nums[5] \in 0 .. 59
             /\ f.nums[4] * 60 + f.nums[5] = end
        ELSE /\ f.nums[2] \in 0 .. 23
             /\ f.nums[2] = end \div 60

\* ------------------------------------------------------------------------
\* A log kept week by week across the turn of the year (C21, C22)
\* ------------------------------------------------------------------------

MaxWeeks == 7

WeekIntensities == {0, 5, 6}

\* One episode in each of the last Len(ints) calendar weeks, the most recent
\* first: yesterday, then the Sundays before (2024-01-14 back to 2023-12-10);
\* with extra, a second episode of intensity 0 in the most recent week.
WeeklyLog(ints, extra) ==
  [i \in 1 .. Len(ints) |->
     Episode(ToString(i), DaysAgo(IF i = 1 THEN 1 ELSE 7 * (i - 1) - 1, 12, 0),
             ints[i], << >>, << >>)]
  \o (IF extra /\ Len(ints) > 0
        THEN << Episode("x", DaysAgo(2, 12, 0), 0, << >>, << >>) >> ELSE << >>)

InitWeeks ==
  InitEngine({ ArrayArg(WeeklyLog(w, x)) :
                 w \in UNION {[1 .. k -> WeekIntensities] : k \in 0 .. MaxWeeks},
                 x \in BOOLEAN },
             Variants, {0}, 1, 0)

SpecWeeks == InitWeeks /\ [][Run]_vars

\* The k largest elements of the set S of integers.
Latest(S, k) == {x \in S : Cardinality({y \in S : y > x}) < k}

RECURSIVE MeanSum(_, _, _)
\* The sum, over the buckets ids, of the mean intensity of the episodes of W
\* that bucket puts there, as <<numerator, denominator>>.
MeanSum(W, bucket, ids) ==
  IF ids = {} THEN << 0, 1 >>
  ELSE LET id   == CHOOSE x \in ids : TRUE
           in   == {i \in W : bucket[i] = id}
           rest == MeanSum(W, bucket, ids \ {id})
       IN  << IntensityTotal(in) * rest[2] + rest[1] * Cardinality(in),
              Cardinality(in) * rest[2] >>

\* The Monday that opens the local calendar week of episode i, as a day number.
WeekStart(i) ==
  LET day == (DateParse(Log[i].datetime) + tzOffset) \div MinutesPerDay
  IN  day - ((LocalWeekday(i) + 6) % 7)

\* newer >= 1.2 * older > 0 for two sums of means.
RisenOverPositive(newer, older) ==
  /\ older[1] > 0
  /\ 5 * newer[1] * older[2] >= 6 * older[1] * newer[2]

\* C21: in both engines a rising-intensity finding requires the average of
\* the older period to be strictly positive and the average of the newer
\* period to be at least 1.2 times it.  The periods are the rule's own: the
\* two halves of the 42-day window in the basic engine, the three week
\* buckets the rule ranks last and the three it ranks before them in the
\* extended one.
C21_OlderAveragePositive ==
  (Past("risingIntensity") /\ FindingsOf(4) # {}) =>
    LET W == WindowOf(42) IN
    IF variant = "basic"
      THEN LET split == now - 21 * MinutesPerDay
               half  == [i \in W |-> IF DateParse(Log[i].datetime) < split THEN 1 ELSE 2]
           IN  RisenOverPositive(MeanSum(W, half, {2}), MeanSum(W, half, {1}))
      ELSE LET key  == [i \in W |-> WeekKey(DateParse(Log[i].datetime), tzOffset)]
               keys == {key[i] : i \in W}
           IN  RisenOverPositive(MeanSum(W, key, Latest(keys, 3)),
                                 MeanSum(W, key, Latest(keys, 6) \ Latest(keys, 3)))

\* C22: in the extended engine, with fewer than 6 distinct calendar weeks in
\* the 42-day window there is no rising-intensity finding; with 6 or more the
\* finding is emitted exactly when the average of the weekly means of the
\* three chronologically most recent weeks is at least 1.2 times that of the
\* three weeks before them and the latter is positive.
C22_WeekBuckets ==
  (variant = "extended" /\ Past("risingIntensity")) =>
    LET W      == WindowOf(42)
        week   == [i \in W |-> WeekStart(i)]
        starts == {week[i] : i \in W}
    IN  IF Cardinality(starts) < 6 THEN FindingsOf(4) = {}
        ELSE (FindingsOf(4) # {}) <=>
               RisenOverPositive(MeanSum(W, week, Latest(starts, 3)),
                                 MeanSum(W, week, Latest(starts, 6) \ Latest(starts, 3)))

\* ------------------------------------------------------------------------
\* Medicated episodes logged late in the evening (C23)
\* ------------------------------------------------------------------------

\* The medicated log of days consecutive days, then optionally a second
\* episode yesterday at 23:00Z and one at 23:30Z on the day before the oldest.
LateLog(days, lateLast, lateFirst) ==
  MedicationLog(days, 0, FALSE, FALSE, FALSE)
  \o (IF lateLast THEN << Episode("l", DaysAgo(1, 23, 0), 4, << >>, << Med >>) >> ELSE << >>)
  \o (IF lateFirst THEN << Episode("e", DaysAgo(days + 1, 23, 30), 4, << >>, << Med >>) >>
      ELSE << >>)

InitLateLog ==
  InitEngine({ ArrayArg(LateLog(d, l, e)) :
                 d \in 8 .. MaxMedDays, l \in BOOLEAN, e \in BOOLEAN },
             Variants, TZOffsets, 1, 0)

SpecLateLog == InitLateLog /\ [][Run]_vars

\* The local calendar day of episode i, as a day number.
LocalDay(i) == (DateParse(Log[i].datetime) + tzOffset) \div MinutesPerDay

\* The local calendar days of the 30-day window on which an episode carries
\* a medication entry.
MedicatedLocalDays ==
  { LocalDay(i) : i \in {j \in WindowOf(30) : Len(MedicationsOf(Log[j])) > 0} }

\* C23: the medication rule counts the distinct local calendar days with a
\* medicated episode: the finding is emitted exactly when there are at least
\* 10 of them and reports their number, for every local offset from UTC.
C23_LocalCalendarDays ==
  Past("medicationOveruse") =>
    LET n == Cardinality(MedicatedLocalDays) IN
    /\ (FindingsOf(5) # {}) <=> (n >= MedicationDaysThreshold)
    /\ \A f \in FindingsOf(5) : f.nums[1] = n

\* ------------------------------------------------------------------------
\* Logs with runs of consecutive days (C24)
\* ------------------------------------------------------------------------

MaxStreakDays == 6

\* The numbers of the set S in ascending order.
Ascending(S) ==
  CHOOSE q \in [1 .. Cardinality(S) -> S] : \A i, j \in DOMAIN q : i < j => q[i] < q[j]

\* An episode at 09:00Z on each of the days ago of the set S, oldest first or
\* newest first, then optionally a second episode on the most recent of them.
StreakLog(S, newestFirst, twice) ==
  LET ago == Ascending(S)
      n   == Len(ago)
  IN  [i \in 1 .. n |->
         Episode(ToString(i), DaysAgo(ago[IF newestFirst THEN i ELSE n + 1 - i], 9, 0),
                 4, << >>, << >>)]
      \o (IF twice /\ n > 0
            THEN << Episode("t", DaysAgo(ago[1], 18, 0), 4, << >>, << >>) >> ELSE << >>)

InitStreak ==
  InitEngine({ ArrayArg(StreakLog(S, f, t)) :
                 S \in SUBSET (0 .. MaxStreakDays - 1), f \in BOOLEAN, t \in BOOLEAN },
             {"extended"}, {0}, 1, 0)

SpecStreak == InitStreak /\ [][Run]_vars

\* The calendar days of the whole log.
LoggedDays == { StoredDay(i) : i \in DOMAIN Log }

\* The length of the run of consecutive logged days that ends at the most
\* recent logged day.
RunLength ==
  LET top == CHOOSE d \in LoggedDays : \A e \in LoggedDays : e <= d
  IN  CHOOSE k \in 1 .. Cardinality(LoggedDays) :
        /\ \A j \in 0 .. (k - 1) : (top - j) \in LoggedDays
        /\ (top - k) \notin LoggedDays

\* C24: the streak is the length of the run of consecutive calendar days of
\* the whole history that ends at the most recent day with an episode, a day
\* with several episodes counting once and the run ending at the first gap;
\* 'Consistent tracking' is emitted exactly when the length is at least 3 and
\* names it.
C24_Streak ==
  (variant = "extended" /\ Past("streak")) =>
    /\ (FindingsOf(8) # {}) <=> (RunLength >= 3)
    /\ \A f \in FindingsOf(8) : f.nums = << RunLength >>

\* A run of exactly 3 days whose most recent day holds two episodes, with
\* older episodes beyond a gap.
C24_Witness ==
  /\ variant = "extended"
  /\ Past("streak")
  /\ \E f \in FindingsOf(8) : f.nums = << 3 >>
  /\ Cardinality(LoggedDays) > 3
  /\ Len(Log) > Cardinality(LoggedDays)

\* ------------------------------------------------------------------------
\* Logs gathered at two hours of the day (C25)
\* ------------------------------------------------------------------------

MaxPeakEps == 4

PeakHours == {9, 14}

PeakIntensities == {5, 6, 9}

\* One episode a day back from yesterday, at the given hours (UTC) and with
\* the given intensities.
PeakLog(hours, ints) ==
  [i \in 1 .. Len(hours) |-> Episode(ToString(i), DaysAgo(i, hours[i], 0), ints[i], << >>, << >>)]

InitPeak ==
  InitEngine(UNION { { ArrayArg(PeakLog(h, x)) :
                         h \in [1 .. k -> PeakHours], x \in [1 .. k -> PeakIntensities] } :
                     k \in 0 .. MaxPeakEps },
             {"extended"}, TZOffsets, 1, 0)

SpecPeak == InitPeak /\ [][Run]_vars

\* C25: among the local hours of the episodes of the last 30 days the hour
\* with the highest mean intensity is selected, the lowest hour among equal
\* means; 'Peak intensity hour' is emitted exactly when that hour has a mean
\* of at least 6 and at least 3 episodes, and names it.
C25_PeakHour ==
  (variant = "extended" /\ Past("averageIntensityByHour") /\ WindowOf(30) # {}) =>
    LET W     == WindowOf(30)
        hour  == [i \in W |-> LocalMinute(i) \div 60]
        hours == {hour[i] : i \in W}
        total == [h \in hours |-> IntensityTotal({i \in W : hour[i] = h})]
        count == [h \in hours |-> Cardinality({i \in W : hour[i] = h})]
        best  == CHOOSE h \in hours :
                   \A g \in hours :
                     \/ total[g] * count[h] < total[h] * count[g]
                     \/ total[g] * count[h] = total[h] * count[g] /\ h <= g
    IN  /\ (FindingsOf(6) # {}) <=>
             (total[best] >= 6 * count[best] /\ count[best] >= 3)
        /\ \A f \in FindingsOf(6) : f.nums = << best >>

\* No finding: the hour of the highest mean holds a single episode, while
\* another hour holds three episodes of mean 6 or more.
C25_Witness ==
  /\ variant = "extended"
  /\ Past("averageIntensityByHour")
  /\ FindingsOf(6) = {}
  /\ Len(Log) = 4
  /\ \E i \in DOMAIN Log :
       /\ Log[i].intensity = 9
       /\ \A j \in DOMAIN Log \ {i} :
            /\ LocalMinute(j) \div 60 # LocalMinute(i) \div 60
            /\ Log[j].intensity = 6

\* ------------------------------------------------------------------------
\* Reminders: cancelling, denied permission (C26, C27)
\* ------------------------------------------------------------------------

\* C26: while the stored settings have reminders disabled (the last call
\* into reminders.js was cancelReminders, or initReminders with reminders
\* disabled) no reminder timer is pending, whatever permission request was
\* unresolved when the reminders were cancelled.
C26_CancelStopsReminders ==
  ~storedSettings.reminderEnabled => reminders.timers = {}

\* C27: a reminder timer is pending only while permission is 'granted'; and
\* with reminders enabled, once initReminders has found the permission
\* denied or the user has denied it in answer to the prompt, the event
\* 'notifications-denied' has been dispatched.
C27_DeniedShowsBanner ==
  /\ reminders.timers # {} => permission = "granted"
  /\ (permission = "denied" /\ storedSettings.reminderEnabled
        /\ lastOp.name \in {"initApp", "updateSettings", "permission"}) =>
       reminders.denied > 0

\* ------------------------------------------------------------------------
\* Reminders: the delay of the timer (C28)
\* ------------------------------------------------------------------------

\* Minutes since local midnight at the instant t.
ClockMinute(t) == (t + tzOffset) % MinutesPerDay

\* The next instant after t at which the local clock shows hm.
NextOccurrence(hm, t) ==
  LET m == hm[1] * 60 + hm[2]
  IN  IF m > ClockMinute(t) THEN t + (m - ClockMinute(t))
      ELSE t + MinutesPerDay - (ClockMinute(t) - m)

\* The time of day the last operation scheduled a timer for, or none.
ScheduledFor ==
  IF lastOp.name = "permission" THEN << lastOp.time >>
  ELSE IF lastOp.name \in {"initApp", "updateSettings"}
          /\ storedSettings.reminderEnabled /\ permission = "granted"
       THEN << storedSettings.reminderTime >>
       ELSE << >>

\* C28: a timer scheduled for a chosen HH:mm is due at the next occurrence of
\* that local time, today's when it is still ahead and tomorrow's otherwise
\* (also when it is now), so after more than 0 minutes and at most 24 hours;
\* and a firing reminder arms exactly one follow-up timer, due 24 hours later.
C28_NextOccurrence ==
  /\ (ScheduledFor # << >> /\ ScheduledFor[1] # NoTime) =>
       LET id    == reminders.reminderTimeoutId
           delay == reminders.due[id] - clock
       IN  /\ id \in reminders.timers
           /\ reminders.due[id] = NextOccurrence(ScheduledFor[1], clock)
           /\ delay > 0
           /\ delay <= MinutesPerDay
  /\ lastOp.name = "timer" =>
       LET id == reminders.reminderTimeoutId
       IN  /\ id \notin lastOp.before
           /\ reminders.timers = (lastOp.before \ {lastOp.fired}) \cup {id}
           /\ reminders.due[id] = clock + MinutesPerDay

\* A reminder for the time the clock shows now has been scheduled, for
\* tomorrow, after an earlier reminder fired.
C28_Witness ==
  /\ lastOp.name = "updateSettings"
  /\ ScheduledFor # << >>
  /\ ScheduledFor[1] # NoTime
  /\ ScheduledFor[1][1] * 60 + ScheduledFor[1][2] = ClockMinute(clock)
  /\ reminders.due[reminders.reminderTimeoutId] = clock + MinutesPerDay
  /\ shown > 0

\* ------------------------------------------------------------------------
\* storage.js: updating one episode (C29)
\* ------------------------------------------------------------------------

\* The first position of es at which the id is carried, 0 if there is none.
FirstWithId(es, id) ==
  IF \E i \in DOMAIN es : es[i].id = id
  THEN CHOOSE i \in DOMAIN es : es[i].id = id /\ \A j \in 1 .. (i - 1) : es[j].id # id
  ELSE 0

\* C29: updateEpisode(id, patch) keeps the id and the position of the
\* episode. When an episode carries the id, the first such episode is
\* replaced where it stands by the old fields overlaid with the patch, its id
\* the given one whatever id the patch carries; every other episode and the
\* length of the collection are as before, and the merged episode is
\* returned. When no episode carries the id, null is returned, the stored
\* collection is as before and saveEpisodes, hence onChange, was not called.
C29_UpdateInPlace ==
  lastOp.name = "updateEpisode" =>
    LET before == lastOp.before
        patch  == lastOp.patch
        i      == FirstWithId(before, lastOp.id)
    IN  IF i = 0
        THEN /\ lastOp.returned = Null
             /\ stored = before
             /\ lastOp.saves = 0
        ELSE /\ Len(stored) = Len(before)
             /\ \A j \in DOMAIN before : j # i => stored[j] = before[j]
             /\ stored[i].id = lastOp.id
             /\ DOMAIN stored[i] = DOMAIN before[i] \cup DOMAIN patch
             /\ \A f \in DOMAIN stored[i] \ {"id"} :
                  stored[i][f] = IF f \in DOMAIN patch THEN patch[f] ELSE before[i][f]
             /\ lastOp.returned = stored[i]
             /\ lastOp.saves = 1

\* An episode that stands second in the store was updated with a patch that
\* carries another id and another value.
C29_Witness ==
  /\ lastOp.name = "updateEpisode"
  /\ FirstWithId(lastOp.before, lastOp.id) = 2
  /\ "id" \in DOMAIN lastOp.patch
  /\ lastOp.patch.id # lastOp.id
  /\ lastOp.patch.rev # lastOp.before[2].rev
  /\ stored[2].rev = lastOp.patch.rev

\* An update for an id that no stored episode carries, the store not empty.
C29_WitnessAbsent ==
  /\ lastOp.name = "updateEpisode"
  /\ lastOp.before # << >>
  /\ FirstWithId(lastOp.before, lastOp.id) = 0

\* ------------------------------------------------------------------------
\* timeOfDayRule: the scan followed step by step (C30)
\* ------------------------------------------------------------------------

\* let maxCount = 0; let windowStartIdx = 0; let windowStartTime = 0; and
\* let i = 0 of the for statement, over the sorted minutes (indices count
\* from 0 as in the code; minutes[k] of the code is minutes[k + 1] here).
ScanStart(minutes) ==
  [pc |-> "for", minutes |-> minutes, i |-> 0, windowStartIdx |-> 0, maxCount |-> 0,
   windowStartTime |-> 0, count |-> 0]

\* The test of the while loop with a span one minute too long.
ShrinkTestWide(minutes, i, ws) ==
  /\ ws < Len(minutes)
  /\ minutes[i + 1] - minutes[ws + 1] > ClusterSpanMinutes + 1

\* minutes[i] - minutes[windowStartIdx] > 240; past the end of the array
\* minutes[windowStartIdx] is undefined, the difference NaN and the test false.
ShrinkTest(minutes, i, ws) ==
  /\ ws < Len(minutes)
  /\ minutes[i + 1] - minutes[ws + 1] > ClusterSpanMinutes

\* i < minutes.length: the body is entered or the loop is left.
ForTest ==
  /\ scan.pc = "for"
  /\ scan' = [scan EXCEPT !.pc = IF scan.i < Len(scan.minutes) THEN "while" ELSE "done"]
  /\ UNCHANGED << engineVars, appVars, downloads, exportReturn, cache, worker, online,
                  response >>

\* One test of the while loop: windowStartIdx++ and the test again, or on
\* to the count.
WhileTest ==
  /\ scan.pc = "while"
  /\ scan' = IF ShrinkTest(scan.minutes, scan.i, scan.windowStartIdx)
             THEN [scan EXCEPT !.windowStartIdx = @ + 1]
             ELSE [scan EXCEPT !.pc = "count"]
  /\ UNCHANGED << engineVars, appVars, downloads, exportReturn, cache, worker, online,
                  response >>

\* const count = i - windowStartIdx + 1; if (count > maxCount) { ... }; i++
TakeCount ==
  /\ scan.pc = "count"
  /\ LET count == scan.i - scan.windowStartIdx + 1
     IN  scan' = [scan EXCEPT
                    !.count = count,
                    !.maxCount = IF count > @ THEN count ELSE @,
                    !.windowStartTime = IF count > scan.maxCount
                                        THEN scan.minutes[scan.windowStartIdx + 1] ELSE @,
                    !.i = @ + 1,
                    !.pc = "for"]
  /\ UNCHANGED << engineVars, appVars, downloads, exportReturn, cache, worker, online,
                  response >>

\* The scan is about to start over the sorted minutes of a log.
InitScan ==
  /\ EngineIdle
  /\ AppIdle
  /\ downloads = << >>
  /\ exportReturn = [kind |-> "none"]
  /\ cache = {}
  /\ worker = "parsed"
  /\ online = TRUE
  /\ response = [kind |-> "none"]
  /\ scan \in { ScanStart(SortedMinutes(TimeOfDayLog(m), Now0, tz)) :
                  m \in UNION {[1 .. k -> MinuteChoices] : k \in 0 .. MaxTodEps},
                  tz \in TZOffsets }

NextScan ==
  \/ ForTest
  \/ WhileTest
  \/ TakeCount

\* The loop runs to its end once started: nothing else runs on the thread.
SpecScan == InitScan /\ [][NextScan]_vars /\ WF_vars(NextScan)

\* The followed scan ends with the loop state of ScanSteps.
ScanAgrees ==
  scan.pc = "done" =>
    LET r == ScanResult(scan.minutes)
    IN  /\ scan.maxCount = r.maxCount
        /\ scan.windowStartTime = r.windowStartTime
        /\ (scan.minutes # << >> => scan.windowStartIdx + 1 = r.windowStartIdx)

\* Inside the body of the for loop the indices are in order and in the array;
\* a count is taken only over a span of at most 240 minutes and lies between
\* 1 and the number of episodes.
ScanInBounds ==
  /\ scan.pc \in {"while", "count"} =>
       /\ 0 <= scan.windowStartIdx
       /\ scan.windowStartIdx <= scan.i
       /\ scan.i < Len(scan.minutes)
  /\ scan.pc = "count" =>
       /\ scan.minutes[scan.i + 1] - scan.minutes[scan.windowStartIdx + 1]
            <= ClusterSpanMinutes
       /\ scan.i - scan.windowStartIdx + 1 \in 1 .. Len(scan.minutes)
  /\ scan.pc \in {"for", "done"} /\ scan.i > 0 =>
       /\ scan.count \in 1 .. Len(scan.minutes)
       /\ scan.maxCount \in 1 .. Len(scan.minutes)
       /\ scan.windowStartIdx < scan.i
       /\ scan.i <= Len(scan.minutes)

\* C30: in the two-pointer scan of the time-of-day rule the left index never
\* passes the right one and never leaves the array (0 <= windowStartIdx <= i <
\* length at every step of the loop body), windowStartIdx never decreases, a
\* count is taken only when minutes[i] - minutes[windowStartIdx] <= 240, so
\* every count lies between 1 and the number of episodes, and the shrink loop
\* ends each time it is entered.
C30_ScanIndices ==
  /\ [][ScanInBounds' /\ scan'.windowStartIdx >= scan.windowStartIdx]_vars
  /\ ((scan.pc = "while") ~> (scan.pc = "count"))

\* The left index has moved twice inside one shrink loop and stands on the
\* right index, which is the last of four; the span before it held two.
C30_Witness ==
  /\ scan.pc = "count"
  /\ Len(scan.minutes) = 4
  /\ scan.i = 3
  /\ scan.windowStartIdx = 3
  /\ scan.count = 2
  /\ scan.minutes[3] - scan.minutes[2] <= ClusterSpanMinutes

====
